---- MODULE Spec2Model ----
(***************************************************************************)
(* A model of superqueue's Queue<T> (src/src/index.ts): the buffered FIFO   *)
(* with its termination sentinel, the single-drain guard, and the drain     *)
(* loops (map / collect / async iteration) built on #shift.                 *)
(*                                                                          *)
(* JavaScript runs each synchronous stretch of code to completion, so an    *)
(* action is one such stretch: a public call, or the continuation of an     *)
(* async function from one await to the next.  Continuations of different   *)
(* tasks interleave arbitrarily.                                            *)
(*                                                                          *)
(* Spec      one queue, its producers, and a map / async-iterator drain     *)
(* SpecPar   src.upipe(callback, n) and src.usplit(callback, n), over       *)
(*           mapParallel for finite n and over map for n = Infinity         *)
(* SpecBatch src.batch(n).flat()                                            *)
(* SpecOrd       src.pipe(callback) and src.split(callback)                 *)
(* SpecOrdFail   pipe / split / flat whose callback fails                   *)
(* SpecClone     src.clone(count) and the drains of the clones              *)
(* SpecCloneNone src.clone(count) with count < 1                            *)
(* SpecMerge     src.umerge(oth)                                            *)
(* SpecTwice     a combinator called on a piped queue                       *)
(* SpecParFail   SpecPar with callbacks that may reject                     *)
(* SpecParZero   SpecPar with n = 0 among the concurrencies                 *)
(* SpecShift     shiftUnsafe and waitForShift                               *)
(* SpecFrom      Queue.fromArray(array)                                     *)
(* SpecThrow     map with a visitor that throws                             *)
(* FairChain     chains of ordered combinators, with fairness               *)
(* Fair...       the specifications above under weak fairness               *)
(***************************************************************************)
EXTENDS Integers, Sequences, FiniteSets, TLC

\* ------------------------------------------------------------------ bounds
MaxItem == 2        \* item values are 1..MaxItem
MaxPush == 3        \* total number of items accepted by push
MaxVals == 2        \* arguments of one push call
MaxCalls == 3       \* push calls that are accepted
MaxN == 2           \* largest finite concurrency passed to upipe / usplit
MaxSrc == 3         \* items the source of an unordered combinator is given
MaxBatch == 3       \* largest group size passed to batch
MaxClone == 2       \* largest count passed to clone
MaxMerge == 2       \* items each source of umerge is given
MaxShift == 3       \* shiftUnsafe calls
MaxListen == 2      \* waitForShift calls
MaxArr == 3         \* length of the array passed to fromArray
MaxChain == 2       \* items the source of a chain is given

\* --------------------------------------------------------------- constants
EOF == 0            \* Queue.#eof (undefined), the termination sentinel
Infinity == 1000000 \* the number Infinity: above every length that occurs
Items == 1..MaxItem

NoErr == "none"
ErrEnded == "Queue has ended"
ErrPiped == "Queue already piped"
ErrUndefined == "Value can't be undefined. Please use null."
ErrVisitor == "error thrown by the callback"
ErrIndex == "Invalid index"
ErrCount == "Count must be at least 1"
ErrNotArray == "Value is not an array"

\* the value of last after a step that is no public call
Internal == [op |-> "step", err |-> NoErr]

VARIABLES
    qs,        \* queue id -> the private and public fields of that Queue
    dr,        \* queue id -> the drain loop running over that queue
    visited,   \* the items the visitor of the drain over "src" was called with
    pushed,    \* the items accepted by push on "src", in call order
    last,      \* the step just taken and the error it threw
    cfg,       \* the unordered combinator called on "src" and its argument n
    tasks,     \* the invocations of the async visitor, in launch order
    proms,     \* mapParallel's window: indices into tasks
    winner,    \* the position in proms that settled Promise.race, 0 if none
    bn,        \* the group size n passed to batch, 0 if batch is not in use
    buffer,    \* batch's buffer
    batches,   \* the groups the queue derived by batch handed to its drain
    clones,    \* the array of queues clone created
    cdr,       \* for each clone, the drain its consumer runs over it
    got,       \* for each clone, the items its consumer was handed
    pushedB,   \* the items accepted by push on "oth", in call order
    unhandled, \* the reasons of the rejected promises nothing handles
    calls,     \* the shiftUnsafe calls made on "src", in call order
    popped     \* what the shiftUnsafe calls took off the buffer, in order

parVars == <<cfg, tasks, proms, winner>>

batVars == <<bn, buffer, batches>>

extVars == <<clones, cdr, got, pushedB, unhandled, calls, popped>>

vars == <<qs, dr, visited, pushed, last, cfg, tasks, proms, winner,
          bn, buffer, batches, clones, cdr, got, pushedB, unhandled,
          calls, popped>>

\* ------------------------------------------------------------- Queue state
QueueIds == {"src", "oth", "out", "q1", "q2", "bat", "flt"}

\* the queues whose items are arrays; an array is a sequence of items
ArrayQueueIds == {"bat"}

\* fields of a new Queue (field initialisers and constructor)
\* eof is Queue.#eof as it appears among the items of the queue: EOF among
\* plain items, and <<EOF>>, which no array of items equals, among arrays
NewQueue ==
    [queue |-> <<>>, prom |-> 0, resolveEndCalls |-> 0, pushCount |-> 0,
     shiftResolvers |-> <<>>, ended |-> FALSE, piped |-> FALSE, eof |-> EOF]

NewArrayQueue == [NewQueue EXCEPT !.eof = <<EOF>>]

\* an async caller of #shift: where it stands and what it was handed
NewDrain == [pc |-> "idle", kind |-> "none", awaits |-> 0, r |-> EOF]

size(q) == Len(q.queue)

pushCount(q) == q.pushCount

\* #run: resolve the current #prom and install a fresh one
run(q) == [q EXCEPT !.prom = @ + 1]

pushThrowsUndefinedOnly(q, vals) ==
    IF \E i \in DOMAIN vals : vals[i] = q.eof THEN ErrUndefined ELSE NoErr

pushThrowsOnFirst(q, vals) ==
    IF q.ended THEN ErrEnded
    ELSE IF vals # <<>> /\ vals[1] = q.eof THEN ErrUndefined
    ELSE NoErr

\* the error push throws, NoErr when it accepts its arguments
pushThrows(q, vals) ==
    IF q.ended THEN ErrEnded
    ELSE IF \E i \in DOMAIN vals : vals[i] = q.eof THEN ErrUndefined
    ELSE NoErr

pushFront(q, vals) ==
    IF pushThrows(q, vals) # NoErr THEN q
    ELSE run([q EXCEPT !.pushCount = @ + Len(vals), !.queue = vals \o @])

pushCountsCalls(q, vals) ==
    IF pushThrows(q, vals) # NoErr THEN q
    ELSE run([q EXCEPT !.pushCount = @ + 1, !.queue = @ \o vals])

push(q, vals) ==
    IF pushThrows(q, vals) # NoErr THEN q
    ELSE run([q EXCEPT !.pushCount = @ + Len(vals), !.queue = @ \o vals])

endNeverThrows(q) == NoErr

endThrows(q) == IF q.ended THEN ErrEnded ELSE NoErr

endWithoutRun(q) ==
    IF endThrows(q) # NoErr THEN q
    ELSE [q EXCEPT !.queue = Append(@, q.eof), !.ended = TRUE,
                   !.resolveEndCalls = @ + 1]

endWithoutResolve(q) ==
    IF endThrows(q) # NoErr THEN q
    ELSE [run([q EXCEPT !.queue = Append(@, q.eof)]) EXCEPT !.ended = TRUE]

end(q) ==
    IF endThrows(q) # NoErr THEN q
    ELSE [run([q EXCEPT !.queue = Append(@, q.eof)])
            EXCEPT !.ended = TRUE, !.resolveEndCalls = @ + 1]

\* the promise returned by waitForEnd is settled once #resolveEnd was called
waitForEnd(q) == q.resolveEndCalls > 0

preparePipeNeverThrows(q) == NoErr

preparePipeThrows(q) == IF q.piped THEN ErrPiped ELSE NoErr

preparePipeForgets(q) == q

\* #preparePipe when it does not throw
preparePipe(q) == [q EXCEPT !.piped = TRUE]

\* the element #shift removes from a non-empty buffer
shiftBack(buf) == buf[Len(buf)]

shiftFront(buf) == Head(buf)

shiftKeep(buf) == buf

\* what #queue.shift() leaves in the buffer
shiftRest(buf) == Tail(buf)

fireFirst(rs) == [i \in DOMAIN rs |-> IF i = 1 THEN rs[i] + 1 ELSE rs[i]]

\* this.#shiftResolvers.map(r => r()): every registered resolver is called;
\* a resolver is the number of times it was called
fireAll(rs) == [i \in DOMAIN rs |-> rs[i] + 1]

suspendsWhenEmpty(q) == FALSE

returnsEofAlways(q) == TRUE

\* if (this.ended) return Queue.#eof, on an empty buffer
returnsEofWhenEmpty(q) == q.ended

\* the synchronous part of one #shift call made by drain d on queue q:
\* suspend on #prom, return the sentinel, or pop the front and call every
\* registered shift resolver
shift(q, d) ==
    IF size(q) = 0
    THEN IF returnsEofWhenEmpty(q)
         THEN [q |-> q, d |-> [d EXCEPT !.pc = "holding", !.r = q.eof]]
         ELSE [q |-> q, d |-> [d EXCEPT !.pc = "waiting", !.awaits = q.prom]]
    ELSE [q |-> [q EXCEPT !.queue = shiftRest(@),
                          !.shiftResolvers = fireAll(@)],
          d |-> [d EXCEPT !.pc = "holding", !.r = shiftFront(q.queue)]]

\* the promise a suspended #shift awaits has been resolved by a later #run
waitForPush(q, d) == q.prom > d.awaits

visitorThrewIgnored(q, d) == shift(q, d)

\* callback(r) throws inside map's loop: the exception leaves the loop, no
\* further #shift is called and the promise of map is rejected
visitorThrew(q, d) == [q |-> q, d |-> [d EXCEPT !.pc = "failed"]]

\* a value v that is no array, as it appears among the items of a queue of
\* arrays: the sequence <<-v>>, which no array of items and no sentinel equals
scalar(v) == <<0 - v>>

\* v instanceof Array, for an item of a queue of arrays
instanceofArray(x) == \A k \in DOMAIN x : x[k] > 0

\* ------------------------------------------------------------------- Init
InitQueues ==
    /\ qs = [i \in QueueIds |->
                IF i \in ArrayQueueIds THEN NewArrayQueue ELSE NewQueue]
    /\ dr = [i \in QueueIds |-> NewDrain]
    /\ visited = <<>>
    /\ pushed = <<>>
    /\ last = [op |-> "new", err |-> NoErr]

\* no unordered combinator is in use
NoPar ==
    /\ cfg = [mode |-> "none", n |-> 0]
    /\ tasks = <<>>
    /\ proms = <<>>
    /\ winner = 0

\* batch is not in use
NoBatch ==
    /\ bn = 0
    /\ buffer = <<>>
    /\ batches = <<>>

\* neither clone nor umerge is in use
NoExt ==
    /\ clones = <<>>
    /\ cdr = <<>>
    /\ got = <<>>
    /\ pushedB = <<>>
    /\ unhandled = <<>>
    /\ calls = <<>>
    /\ popped = <<>>

Init == InitQueues /\ NoPar /\ NoBatch /\ NoExt

\* the argument lists a producer may pass to push
ValSeqs == UNION {[1..n -> Items \cup {EOF}] : n \in 0..MaxVals}

\* ---------------------------------------------------------------- actions
\* a producer calls src.push(...vals)
Push ==
    \E vals \in ValSeqs :
        /\ qs["src"].pushCount + Len(vals) <= MaxPush
        /\ pushThrows(qs["src"], vals) = NoErr => qs["src"].prom < MaxCalls
        /\ qs' = [qs EXCEPT !["src"] = push(@, vals)]
        /\ pushed' = IF pushThrows(qs["src"], vals) = NoErr
                     THEN pushed \o vals ELSE pushed
        /\ last' = [op |-> "push", err |-> pushThrows(qs["src"], vals)]
        /\ UNCHANGED <<dr, visited, parVars, batVars, extVars>>

\* a producer calls src.end()
End ==
    /\ qs' = [qs EXCEPT !["src"] = end(@)]
    /\ last' = [op |-> "end", err |-> endThrows(qs["src"])]
    /\ UNCHANGED <<dr, visited, pushed, parVars, batVars, extVars>>

\* a full drain is started on src: map / collect (kind "map"), or the first
\* next() of the async iterator (kind "iter")
StartDrain(kind) ==
    /\ last' = [op |-> kind, err |-> preparePipeThrows(qs["src"])]
    /\ IF preparePipeThrows(qs["src"]) # NoErr
       THEN UNCHANGED <<qs, dr>>
       ELSE LET s == shift(preparePipe(qs["src"]),
                           [NewDrain EXCEPT !.kind = kind])
            IN  /\ qs' = [qs EXCEPT !["src"] = s.q]
                /\ dr' = [dr EXCEPT !["src"] = s.d]
    /\ UNCHANGED <<visited, pushed, parVars, batVars, extVars>>

\* a suspended #shift resumes after #run and retries (return await #shift())
ShiftResume ==
    \E i \in QueueIds :
        /\ dr[i].pc = "waiting"
        /\ waitForPush(qs[i], dr[i])
        /\ LET s == shift(qs[i], dr[i])
           IN  /\ qs' = [qs EXCEPT ![i] = s.q]
               /\ dr' = [dr EXCEPT ![i] = s.d]
        /\ last' = Internal
    /\ UNCHANGED <<visited, pushed, parVars, batVars, extVars>>

\* map's loop receives r: stop on the sentinel, else call the visitor and
\* call #shift again
MapStep ==
    /\ dr["src"].pc = "holding"
    /\ dr["src"].kind = "map"
    /\ IF dr["src"].r = qs["src"].eof
       THEN /\ dr' = [dr EXCEPT !["src"].pc = "done"]
            /\ UNCHANGED <<qs, visited>>
       ELSE LET s == shift(qs["src"], dr["src"])
            IN  /\ visited' = Append(visited, dr["src"].r)
                /\ qs' = [qs EXCEPT !["src"] = s.q]
                /\ dr' = [dr EXCEPT !["src"] = s.d]
    /\ last' = Internal
    /\ UNCHANGED <<pushed, parVars, batVars, extVars>>

\* the async generator receives r: return on the sentinel, else yield it to
\* the for-await body
IterYield ==
    /\ dr["src"].pc = "holding"
    /\ dr["src"].kind = "iter"
    /\ IF dr["src"].r = qs["src"].eof
       THEN /\ dr' = [dr EXCEPT !["src"].pc = "done"]
            /\ UNCHANGED visited
       ELSE /\ visited' = Append(visited, dr["src"].r)
            /\ dr' = [dr EXCEPT !["src"].pc = "yielded"]
    /\ last' = Internal
    /\ UNCHANGED <<qs, pushed, parVars, batVars, extVars>>

\* the for-await body finished and calls next(): the generator calls #shift
IterNext ==
    /\ dr["src"].pc = "yielded"
    /\ LET s == shift(qs["src"], dr["src"])
       IN  /\ qs' = [qs EXCEPT !["src"] = s.q]
           /\ dr' = [dr EXCEPT !["src"] = s.d]
    /\ last' = Internal
    /\ UNCHANGED <<visited, pushed, parVars, batVars, extVars>>

Next ==
    \/ Push
    \/ End
    \/ \E kind \in {"map", "iter"} : StartDrain(kind)
    \/ ShiftResume
    \/ MapStep
    \/ IterYield
    \/ IterNext

Spec == Init /\ [][Next]_vars

\* ------------------------------------- mapParallel, upipe and usplit
\* the method upipe / usplit select with this[n === Infinity ? ... : ...]
drainKind(n) == IF n = Infinity THEN "map" ELSE "mapParallel"

\* the value a callback that does not skip v resolves with
transform(v) == MaxItem + 1 - v

\* the derived queues the combinator creates
derivedOf(mode) ==
    IF mode \in {"pipe", "upipe"} THEN {"out"}
    ELSE IF mode = "flat" THEN {"flt"}
    ELSE {"q1", "q2"}

\* the derived queue the wrapper c pushes a result with this lane onto
target(mode, lane) ==
    IF mode \in {"pipe", "upipe"} THEN "out"
    ELSE IF lane = 0 THEN "q1" ELSE "q2"

launchStale(ts, v) ==
    Append(ts, [v |-> IF ts = <<>> THEN v ELSE ts[Len(ts)].v,
                st |-> "running", r |-> EOF, lane |-> 0])

\* calling the async wrapper c(v): callback(v) is started and c suspends
launch(ts, v) ==
    Append(ts, [v |-> v, st |-> "running", r |-> EOF, lane |-> 0])

windowFullPositive(p, n) == n > 0 /\ Len(p) = n

windowOverfull(p, n) == Len(p) = n + 1

\* if (proms.length === n)
windowFull(p, n) == Len(p) = n

\* the position in p of the promise that settles Promise.race when some are
\* settled already as the race starts: the first of them; 0 if none is
raceWinner(p, ts) ==
    IF \E k \in DOMAIN p : ts[p[k]].st # "running"
    THEN CHOOSE k \in DOMAIN p :
            /\ ts[p[k]].st # "running"
            /\ \A j \in 1..(k - 1) : ts[p[j]].st = "running"
    ELSE 0

\* proms.filter((_, i) => i !== index)
filterOut(p, index) ==
    [k \in 1..(Len(p) - 1) |-> IF k < index THEN p[k] ELSE p[k + 1]]

indexOfFirst(p, i) == IF p # <<>> /\ p[1] = i THEN 1 ELSE 0

\* the position of task i in the window, 0 if it is not in it
indexOf(p, i) ==
    IF \E k \in DOMAIN p : p[k] = i
    THEN CHOOSE k \in DOMAIN p : p[k] = i ELSE 0

allSettledNow(p, ts) == TRUE

\* Promise.allSettled(proms) has resolved
allSettled(p, ts) == \A k \in DOMAIN p : ts[p[k]].st # "running"

breakNoJoin(p) == "done"

\* after the break: await Promise.allSettled(proms) if proms is not empty
breakPc(p) == IF Len(p) > 0 THEN "joining" ELSE "done"

\* the head of mapParallel's loop: race when the window is full, else #shift
loopHead(q, d, p, ts, n) ==
    IF windowFull(p, n)
    THEN [q |-> q, d |-> [d EXCEPT !.pc = "racing"], w |-> raceWinner(p, ts)]
    ELSE LET s == shift(q, d) IN [q |-> s.q, d |-> s.d, w |-> 0]

RECURSIVE pipeOut(_)
\* what pipe pushes onto its derived queue when its callback returns rs[k]
\* for the k-th source item: every result but undefined, in source order
pipeOut(rs) ==
    IF rs = <<>> THEN <<>>
    ELSE (IF Head(rs) = EOF THEN <<>> ELSE <<Head(rs)>>) \o pipeOut(Tail(rs))

RECURSIVE splitOut(_, _, _)
\* what split pushes onto the derived queue of this lane when its callback
\* returns [rs[k], lanes[k]] for the k-th source item
splitOut(rs, lanes, lane) ==
    IF rs = <<>> THEN <<>>
    ELSE (IF Head(lanes) = lane THEN <<Head(rs)>> ELSE <<>>)
            \o splitOut(Tail(rs), Tail(lanes), lane)

\* an unordered combinator is chosen with its concurrency
InitPar ==
    /\ InitQueues
    /\ cfg \in [mode : {"upipe", "usplit"}, n : (1..MaxN) \cup {Infinity}]
    /\ tasks = <<>>
    /\ proms = <<>>
    /\ winner = 0
    /\ NoBatch
    /\ NoExt

\* the k-th item given to the source of an unordered combinator; the
\* combinators compare an item with undefined and never inspect it otherwise
input(k) == ((k - 1) % MaxItem) + 1

\* the producer of the source calls src.push(v), until it has ended it
PushOne ==
    \E v \in {input(qs["src"].pushCount + 1)} :
        /\ ~qs["src"].ended
        /\ qs["src"].pushCount < MaxSrc
        /\ qs' = [qs EXCEPT !["src"] = push(@, <<v>>)]
        /\ pushed' = IF pushThrows(qs["src"], <<v>>) = NoErr
                     THEN Append(pushed, v) ELSE pushed
        /\ last' = [op |-> "push", err |-> pushThrows(qs["src"], <<v>>)]
        /\ UNCHANGED <<dr, visited, parVars, batVars, extVars>>

\* the producer of the source calls src.end(), once
EndOnce ==
    /\ ~qs["src"].ended
    /\ qs' = [qs EXCEPT !["src"] = end(@)]
    /\ last' = [op |-> "end", err |-> endThrows(qs["src"])]
    /\ UNCHANGED <<dr, visited, pushed, parVars, batVars, extVars>>

\* src.upipe(callback, n) / src.usplit(callback, n): the derived queues are
\* created and map or mapParallel is called with the wrapper c
StartUnordered ==
    /\ dr["src"].pc = "idle"
    /\ last' = [op |-> cfg.mode, err |-> NoErr]
    /\ IF preparePipeThrows(qs["src"]) # NoErr
       THEN UNCHANGED <<qs, dr, winner>>
       ELSE LET d0 == [NewDrain EXCEPT !.kind = drainKind(cfg.n)]
                h  == IF drainKind(cfg.n) = "map"
                      THEN LET s == shift(preparePipe(qs["src"]), d0)
                           IN  [q |-> s.q, d |-> s.d, w |-> 0]
                      ELSE loopHead(preparePipe(qs["src"]), d0, <<>>,
                                    tasks, cfg.n)
            IN  /\ qs' = [qs EXCEPT !["src"] = h.q]
                /\ dr' = [dr EXCEPT !["src"] = h.d]
                /\ winner' = h.w
    /\ UNCHANGED <<visited, pushed, cfg, tasks, proms, batVars, extVars>>

\* mapParallel receives r from #shift: break on the sentinel and join the
\* window, else launch the visitor and go round the loop
ParStep ==
    /\ dr["src"].pc = "holding"
    /\ dr["src"].kind = "mapParallel"
    /\ IF dr["src"].r = qs["src"].eof
       THEN /\ dr' = [dr EXCEPT !["src"].pc = breakPc(proms)]
            /\ UNCHANGED <<qs, tasks, proms, winner>>
       ELSE LET ts == launch(tasks, dr["src"].r)
                p  == Append(proms, Len(ts))
                h  == loopHead(qs["src"], dr["src"], p, ts, cfg.n)
            IN  /\ tasks' = ts
                /\ proms' = p
                /\ qs' = [qs EXCEPT !["src"] = h.q]
                /\ dr' = [dr EXCEPT !["src"] = h.d]
                /\ winner' = h.w
    /\ last' = Internal
    /\ UNCHANGED <<visited, pushed, cfg, batVars, extVars>>

\* await Promise.race(...) returns: a rejected winner makes mapParallel
\* throw, a fulfilled one is filtered out of the window and #shift is called
ParRace ==
    /\ dr["src"].pc = "racing"
    /\ winner # 0
    /\ IF tasks[proms[winner]].st = "rejected"
       THEN /\ dr' = [dr EXCEPT !["src"].pc = "failed"]
            /\ UNCHANGED <<qs, proms>>
       ELSE LET s == shift(qs["src"], dr["src"])
            IN  /\ proms' = filterOut(proms, winner)
                /\ qs' = [qs EXCEPT !["src"] = s.q]
                /\ dr' = [dr EXCEPT !["src"] = s.d]
    /\ winner' = 0
    /\ last' = Internal
    /\ UNCHANGED <<visited, pushed, cfg, tasks, batVars, extVars>>

\* await Promise.allSettled(proms) returns and mapParallel completes
ParJoin ==
    /\ dr["src"].pc = "joining"
    /\ allSettled(proms, tasks)
    /\ dr' = [dr EXCEPT !["src"].pc = "done"]
    /\ last' = Internal
    /\ UNCHANGED <<qs, visited, pushed, parVars, batVars, extVars>>

\* map, called by upipe / usplit with n = Infinity, receives r: stop on the
\* sentinel, else call the async wrapper c, drop its promise, #shift again
AsyncMapStep ==
    /\ dr["src"].pc = "holding"
    /\ dr["src"].kind = "map"
    /\ IF dr["src"].r = qs["src"].eof
       THEN /\ dr' = [dr EXCEPT !["src"].pc = "done"]
            /\ UNCHANGED <<qs, tasks>>
       ELSE LET s == shift(qs["src"], dr["src"])
            IN  /\ tasks' = launch(tasks, dr["src"].r)
                /\ qs' = [qs EXCEPT !["src"] = s.q]
                /\ dr' = [dr EXCEPT !["src"] = s.d]
    /\ last' = Internal
    /\ UNCHANGED <<visited, pushed, cfg, proms, winner, batVars, extVars>>

RECURSIVE endAll(_, _)
\* the then-callback: outQueue.end(), or q1.end(); q2.end()
endAll(f, ids) ==
    IF ids = {} THEN f
    ELSE LET i == CHOOSE i \in ids : TRUE
         IN  endAll([f EXCEPT ![i] = end(@)], ids \ {i})

endOne(f, ids) == [f EXCEPT ![CHOOSE i \in ids : TRUE] = end(@)]

\* the derived queue(s) the then-callback ends: outQueue.end, or q1.end()
\* and q2.end()
endDerived(f, ids) == endAll(f, ids)

drainCompleted(d) == d.pc \in {"done", "closed"}

drainSettled(d) == d.pc \in {"done", "failed"}

drainPending(d) == d.pc \in {"waiting", "holding", "done"}

\* the promise map / mapParallel returned is fulfilled
drainFulfilled(d) == d.pc = "done"

\* the drain's promise is fulfilled and its then-callback ends the derived
\* queue(s)
ThenEnd ==
    /\ drainFulfilled(dr["src"])
    /\ qs' = endDerived(qs, derivedOf(cfg.mode))
    /\ dr' = [dr EXCEPT !["src"].pc = "closed"]
    /\ last' = Internal
    /\ UNCHANGED <<visited, pushed, parVars, batVars, extVars>>

\* callback(v) of task i resolves with undefined (skip) or with a value (and
\* a lane for usplit); the wrapper c resumes and pushes the value
TaskSettle ==
    \E i \in DOMAIN tasks, skip \in BOOLEAN, lane \in {0, 1} :
        /\ tasks[i].st = "running"
        /\ (cfg.mode = "upipe" \/ skip) => lane = 0
        /\ LET r   == IF skip THEN EOF ELSE transform(tasks[i].v)
               t   == target(cfg.mode, lane)
               err == IF r = EOF THEN NoErr ELSE pushThrows(qs[t], <<r>>)
           IN  /\ qs' = IF r = EOF THEN qs
                        ELSE [qs EXCEPT ![t] = push(@, <<r>>)]
               /\ tasks' = [tasks EXCEPT ![i] =
                              [@ EXCEPT !.st = IF err = NoErr THEN "fulfilled"
                                               ELSE "rejected",
                                        !.r = r, !.lane = lane]]
               /\ last' = Internal
        /\ winner' = IF dr["src"].pc = "racing" /\ winner = 0
                     THEN indexOf(proms, i) ELSE winner
        /\ UNCHANGED <<dr, visited, pushed, cfg, proms, batVars, extVars>>

NextPar ==
    \/ PushOne
    \/ EndOnce
    \/ StartUnordered
    \/ ShiftResume
    \/ ParStep
    \/ ParRace
    \/ ParJoin
    \/ AsyncMapStep
    \/ ThenEnd
    \/ TaskSettle

SpecPar == InitPar /\ [][NextPar]_vars

\* upipe / usplit is called with n = 0, or with another concurrency
InitParZero ==
    /\ InitQueues
    /\ cfg \in [mode : {"upipe", "usplit"}, n : {0, MaxN, Infinity}]
    /\ tasks = <<>>
    /\ proms = <<>>
    /\ winner = 0
    /\ NoBatch
    /\ NoExt

\* the unordered combinators, a window of 0 included
SpecParZero == InitParZero /\ [][NextPar]_vars

\* callback(v) of task i throws or rejects: the promise of the wrapper c is
\* rejected and nothing is pushed
TaskFail ==
    \E i \in DOMAIN tasks :
        /\ tasks[i].st = "running"
        /\ tasks' = [tasks EXCEPT ![i].st = "rejected"]
        /\ winner' = IF dr["src"].pc = "racing" /\ winner = 0
                     THEN indexOf(proms, i) ELSE winner
        /\ last' = Internal
        /\ UNCHANGED <<qs, dr, visited, pushed, cfg, proms, batVars, extVars>>

NextParFail ==
    \/ PushOne
    \/ EndOnce
    \/ StartUnordered
    \/ ShiftResume
    \/ ParStep
    \/ ParRace
    \/ ParJoin
    \/ AsyncMapStep
    \/ ThenEnd
    \/ TaskSettle
    \/ TaskFail

\* the unordered combinators with callbacks that may fail
SpecParFail == InitPar /\ [][NextParFail]_vars

\* ---------------------------------------------------------- batch and flat
batchFullNever(buf, n) == FALSE

batchFullLate(buf, n) == Len(buf) = n + 1

\* if (buffer.length === n)
batchFull(buf, n) == Len(buf) = n

batchNeverFlush(buf) == FALSE

\* if (buffer.length > 0), in batch's then-callback
batchFlush(buf) == Len(buf) > 0

\* src.batch(n).flat() is called for some group size n
InitBatch ==
    /\ InitQueues
    /\ NoPar
    /\ bn \in 1..MaxBatch
    /\ buffer = <<>>
    /\ batches = <<>>
    /\ NoExt

\* the producer of the source calls src.push(v) with any item, until it has
\* ended it
PushAny ==
    \E v \in Items :
        /\ ~qs["src"].ended
        /\ qs["src"].pushCount < MaxSrc
        /\ qs' = [qs EXCEPT !["src"] = push(@, <<v>>)]
        /\ pushed' = IF pushThrows(qs["src"], <<v>>) = NoErr
                     THEN Append(pushed, v) ELSE pushed
        /\ last' = [op |-> "push", err |-> pushThrows(qs["src"], <<v>>)]
        /\ UNCHANGED <<dr, visited, parVars, batVars, extVars>>

\* src.batch(n): the derived queue "bat" and the buffer are created and map
\* is called on src
StartBatch ==
    /\ dr["src"].pc = "idle"
    /\ last' = [op |-> "batch", err |-> NoErr]
    /\ IF preparePipeThrows(qs["src"]) # NoErr
       THEN UNCHANGED <<qs, dr>>
       ELSE LET s == shift(preparePipe(qs["src"]),
                           [NewDrain EXCEPT !.kind = "map"])
            IN  /\ qs' = [qs EXCEPT !["src"] = s.q]
                /\ dr' = [dr EXCEPT !["src"] = s.d]
    /\ UNCHANGED <<visited, pushed, parVars, batVars, extVars>>

\* bat.flat(): the derived queue "flt" is created and map is called on bat
StartFlat ==
    /\ bn > 0 => dr["src"].pc # "idle"
    /\ dr["bat"].pc = "idle"
    /\ last' = [op |-> "flat", err |-> NoErr]
    /\ IF preparePipeThrows(qs["bat"]) # NoErr
       THEN UNCHANGED <<qs, dr>>
       ELSE LET s == shift(preparePipe(qs["bat"]),
                           [NewDrain EXCEPT !.kind = "map"])
            IN  /\ qs' = [qs EXCEPT !["bat"] = s.q]
                /\ dr' = [dr EXCEPT !["bat"] = s.d]
    /\ UNCHANGED <<visited, pushed, parVars, batVars, extVars>>

\* map over src receives r and calls batch's visitor: buffer r, push the
\* buffer onto bat when it is full; then #shift again
BatchStep ==
    /\ dr["src"].pc = "holding"
    /\ IF dr["src"].r = qs["src"].eof
       THEN /\ dr' = [dr EXCEPT !["src"].pc = "done"]
            /\ UNCHANGED <<qs, buffer>>
       ELSE LET b == Append(buffer, dr["src"].r)
                s == shift(qs["src"], dr["src"])
            IN  /\ buffer' = IF batchFull(b, bn) THEN <<>> ELSE b
                /\ qs' = [qs EXCEPT !["src"] = s.q,
                                    !["bat"] = IF batchFull(b, bn)
                                               THEN push(@, <<b>>) ELSE @]
                /\ dr' = [dr EXCEPT !["src"] = s.d]
    /\ last' = Internal
    /\ UNCHANGED <<visited, pushed, parVars, bn, batches, extVars>>

\* batch's then-callback: push a non-empty buffer, end bat
BatchThen ==
    /\ dr["src"].pc = "done"
    /\ qs' = [qs EXCEPT !["bat"] =
                end(IF batchFlush(buffer) THEN push(@, <<buffer>>) ELSE @)]
    /\ dr' = [dr EXCEPT !["src"].pc = "closed"]
    /\ last' = Internal
    /\ UNCHANGED <<visited, pushed, parVars, batVars, extVars>>

\* map over bat receives r and calls flat's visitor: push the elements of
\* the array onto flt; then #shift again
FlatStep ==
    /\ dr["bat"].pc = "holding"
    /\ IF dr["bat"].r = qs["bat"].eof
       THEN /\ dr' = [dr EXCEPT !["bat"].pc = "done"]
            /\ last' = Internal
            /\ UNCHANGED <<qs, batches, unhandled>>
       ELSE IF ~instanceofArray(dr["bat"].r)
       THEN LET s == visitorThrew(qs["bat"], dr["bat"])
            IN  /\ qs' = [qs EXCEPT !["bat"] = s.q]
                /\ dr' = [dr EXCEPT !["bat"] = s.d]
                /\ last' = [op |-> "visitor", err |-> ErrNotArray]
                /\ unhandled' = Append(unhandled, ErrNotArray)
                /\ UNCHANGED batches
       ELSE LET s == shift(qs["bat"], dr["bat"])
            IN  /\ batches' = Append(batches, dr["bat"].r)
                /\ qs' = [qs EXCEPT !["bat"] = s.q,
                                    !["flt"] = push(@, dr["bat"].r)]
                /\ dr' = [dr EXCEPT !["bat"] = s.d]
                /\ last' = Internal
                /\ UNCHANGED unhandled
    /\ UNCHANGED <<visited, pushed, parVars, bn, buffer, clones, cdr, got,
                   pushedB, calls, popped>>

\* flat's then-callback: end flt
FlatThen ==
    /\ dr["bat"].pc = "done"
    /\ qs' = [qs EXCEPT !["flt"] = end(@)]
    /\ dr' = [dr EXCEPT !["bat"].pc = "closed"]
    /\ last' = Internal
    /\ UNCHANGED <<visited, pushed, parVars, batVars, extVars>>

NextBatch ==
    \/ PushAny
    \/ EndOnce
    \/ StartBatch
    \/ StartFlat
    \/ ShiftResume
    \/ BatchStep
    \/ BatchThen
    \/ FlatStep
    \/ FlatThen

SpecBatch == InitBatch /\ [][NextBatch]_vars

\* -------------------------------------------------------------- pipe, split
\* the synchronous part of map on q: #preparePipe and the first #shift
startMap(f, i, kind) ==
    LET s == shift(preparePipe(f.qs[i]), [NewDrain EXCEPT !.kind = kind])
    IN  [qs |-> [f.qs EXCEPT ![i] = s.q], dr |-> [f.dr EXCEPT ![i] = s.d]]

\* what the callback of pipe may return for v: undefined (EOF here) or a
\* value; the callback of split returns a value and a lane
returns(mode, v) ==
    IF mode = "pipe" THEN {EOF, transform(v)} ELSE {transform(v)}

\* src.pipe(callback) or src.split(callback) is called
InitOrd ==
    /\ InitQueues
    /\ cfg \in [mode : {"pipe", "split"}, n : {0}]
    /\ tasks = <<>>
    /\ proms = <<>>
    /\ winner = 0
    /\ NoBatch
    /\ NoExt

\* src.pipe(callback) / src.split(callback): the derived queues are created
\* and map is called with the wrapper c
StartOrd ==
    /\ dr["src"].pc = "idle"
    /\ LET f == startMap([qs |-> qs, dr |-> dr], "src", "map")
       IN  /\ qs' = f.qs
           /\ dr' = f.dr
    /\ last' = [op |-> cfg.mode, err |-> NoErr]
    /\ UNCHANGED <<visited, pushed, parVars, batVars, extVars>>

\* map receives v and calls the wrapper c: callback(v) returns r (and a
\* lane), c pushes r unless pipe's callback returned undefined; then #shift
\* again.  A push that throws makes map fail
OrdStep ==
    \E r \in Items \cup {EOF}, lane \in {0, 1} :
        /\ dr["src"].pc = "holding"
        /\ cfg.mode = "pipe" => lane = 0
        /\ LET v == dr["src"].r
               t == target(cfg.mode, lane)
           IN  IF v = qs["src"].eof
               THEN /\ r = EOF
                    /\ lane = 0
                    /\ dr' = [dr EXCEPT !["src"].pc = "done"]
                    /\ UNCHANGED <<qs, tasks>>
               ELSE IF r \notin returns(cfg.mode, v)
               THEN FALSE
               ELSE IF r # EOF /\ pushThrows(qs[t], <<r>>) # NoErr
               THEN /\ dr' = [dr EXCEPT !["src"].pc = "failed"]
                    /\ UNCHANGED <<qs, tasks>>
               ELSE LET s  == shift(qs["src"], dr["src"])
                        q1 == [qs EXCEPT !["src"] = s.q]
                    IN  /\ qs' = IF r = EOF THEN q1
                                 ELSE [q1 EXCEPT ![t] = push(@, <<r>>)]
                        /\ dr' = [dr EXCEPT !["src"] = s.d]
                        /\ tasks' = Append(tasks,
                                           [v |-> v, st |-> "fulfilled",
                                            r |-> r, lane |-> lane])
        /\ last' = Internal
        /\ UNCHANGED <<visited, pushed, cfg, proms, winner, batVars, extVars>>

NextOrd ==
    \/ PushOne
    \/ EndOnce
    \/ StartOrd
    \/ ShiftResume
    \/ OrdStep
    \/ ThenEnd

SpecOrd == InitOrd /\ [][NextOrd]_vars

\* ------------------------------------------------------------------ clone
pushTargetsButFirst(count) == 2..count

\* the clones the visitor pushes v onto: queues.map(q => q.push(v))
pushTargets(count) == 1..count

\* the clones the then-callback ends: queues.map(q => q.end())
endTargets(count) == 1..count

pushReadyWhenConsumed(q) == size(q) = 0

\* push appends and returns whatever the buffer holds: it never waits
pushReady(q) == TRUE

\* src.clone(count) is called for some count >= 1
InitClone ==
    /\ InitQueues
    /\ cfg \in [mode : {"clone"}, n : 1..MaxClone]
    /\ tasks = <<>>
    /\ proms = <<>>
    /\ winner = 0
    /\ NoBatch
    /\ NoExt

cloneNeverThrows(count) == NoErr

\* if (count < 1) throw new Error('Count must be at least 1')
cloneThrows(count) == IF count < 1 THEN ErrCount ELSE NoErr

\* src.clone(count): unless count < 1, the clones are created and map is
\* called on src
StartClone ==
    /\ dr["src"].pc = "idle"
    /\ last' = [op |-> "clone", err |-> cloneThrows(cfg.n)]
    /\ IF cloneThrows(cfg.n) # NoErr
       THEN UNCHANGED <<qs, dr, clones, cdr, got>>
       ELSE /\ clones' = [i \in 1..cfg.n |-> NewQueue]
            /\ cdr' = [i \in 1..cfg.n |-> NewDrain]
            /\ got' = [i \in 1..cfg.n |-> <<>>]
            /\ IF preparePipeThrows(qs["src"]) # NoErr
               THEN UNCHANGED <<qs, dr>>
               ELSE LET s == shift(preparePipe(qs["src"]),
                                   [NewDrain EXCEPT !.kind = "map"])
                    IN  /\ qs' = [qs EXCEPT !["src"] = s.q]
                        /\ dr' = [dr EXCEPT !["src"] = s.d]
    /\ UNCHANGED <<visited, pushed, parVars, batVars, pushedB, unhandled,
                   calls, popped>>

\* map over src receives r and calls clone's visitor: push r onto every
\* clone; then #shift again.  A push that throws makes map fail
CloneStep ==
    /\ dr["src"].pc = "holding"
    /\ dr["src"].r # qs["src"].eof =>
          \A i \in pushTargets(cfg.n) : pushReady(clones[i])
    /\ IF dr["src"].r = qs["src"].eof
       THEN /\ dr' = [dr EXCEPT !["src"].pc = "done"]
            /\ UNCHANGED <<qs, clones>>
       ELSE IF \E i \in pushTargets(cfg.n) :
                    pushThrows(clones[i], <<dr["src"].r>>) # NoErr
       THEN /\ dr' = [dr EXCEPT !["src"].pc = "failed"]
            /\ UNCHANGED <<qs, clones>>
       ELSE LET s == shift(qs["src"], dr["src"])
            IN  /\ clones' = [i \in DOMAIN clones |->
                                IF i \in pushTargets(cfg.n)
                                THEN push(clones[i], <<dr["src"].r>>)
                                ELSE clones[i]]
                /\ qs' = [qs EXCEPT !["src"] = s.q]
                /\ dr' = [dr EXCEPT !["src"] = s.d]
    /\ last' = Internal
    /\ UNCHANGED <<visited, pushed, parVars, batVars, cdr, got,
                   pushedB, unhandled, calls, popped>>

\* clone's then-callback: end every clone
CloneThen ==
    /\ dr["src"].pc = "done"
    /\ clones' = [i \in DOMAIN clones |->
                    IF i \in endTargets(cfg.n) THEN end(clones[i])
                    ELSE clones[i]]
    /\ dr' = [dr EXCEPT !["src"].pc = "closed"]
    /\ last' = Internal
    /\ UNCHANGED <<qs, visited, pushed, parVars, batVars, cdr, got,
                   pushedB, unhandled, calls, popped>>

\* a consumer starts a full drain of clone i
startConsume(i) ==
    /\ i \in DOMAIN clones
    /\ cdr[i].pc = "idle"
    /\ LET s == shift(preparePipe(clones[i]), [NewDrain EXCEPT !.kind = "map"])
       IN  /\ clones' = [clones EXCEPT ![i] = s.q]
           /\ cdr' = [cdr EXCEPT ![i] = s.d]
    /\ last' = [op |-> "map", err |-> NoErr]
    /\ UNCHANGED <<qs, dr, visited, pushed, parVars, batVars, got,
                   pushedB, unhandled, calls, popped>>

\* the clones are drained at any time, in any order
Consume == \E i \in DOMAIN clones : startConsume(i)

\* the clones are drained one after another: the drain of clone i + 1 is
\* started when the drain of clone i has completed
ConsumeInTurn ==
    \E i \in DOMAIN clones :
        /\ i > 1 => cdr[i - 1].pc = "done"
        /\ startConsume(i)

\* the suspended #shift of a clone's drain resumes after #run and retries
ConsumeResume ==
    \E i \in DOMAIN clones :
        /\ cdr[i].pc = "waiting"
        /\ waitForPush(clones[i], cdr[i])
        /\ LET s == shift(clones[i], cdr[i])
           IN  /\ clones' = [clones EXCEPT ![i] = s.q]
               /\ cdr' = [cdr EXCEPT ![i] = s.d]
        /\ last' = Internal
        /\ UNCHANGED <<qs, dr, visited, pushed, parVars, batVars, got,
                       pushedB, unhandled, calls, popped>>

\* the drain of a clone receives r: stop on the sentinel, else hand r to the
\* consumer and #shift again
ConsumeStep ==
    \E i \in DOMAIN clones :
        /\ cdr[i].pc = "holding"
        /\ IF cdr[i].r = clones[i].eof
           THEN /\ cdr' = [cdr EXCEPT ![i].pc = "done"]
                /\ UNCHANGED <<clones, got>>
           ELSE LET s == shift(clones[i], cdr[i])
                IN  /\ got' = [got EXCEPT ![i] = Append(@, cdr[i].r)]
                    /\ clones' = [clones EXCEPT ![i] = s.q]
                    /\ cdr' = [cdr EXCEPT ![i] = s.d]
        /\ last' = Internal
        /\ UNCHANGED <<qs, dr, visited, pushed, parVars, batVars,
                       pushedB, unhandled, calls, popped>>

NextClone ==
    \/ PushOne
    \/ EndOnce
    \/ StartClone
    \/ ShiftResume
    \/ CloneStep
    \/ CloneThen
    \/ Consume
    \/ ConsumeResume
    \/ ConsumeStep

SpecClone == InitClone /\ [][NextClone]_vars

NextCloneSeq ==
    \/ PushOne
    \/ EndOnce
    \/ StartClone
    \/ ShiftResume
    \/ CloneStep
    \/ CloneThen
    \/ ConsumeInTurn
    \/ ConsumeResume
    \/ ConsumeStep

\* the event loop runs every continuation that is ready, and the program
\* calls clone and drains the clones in turn; the producer is not obliged
FairCloneSeq ==
    /\ InitClone
    /\ [][NextCloneSeq]_vars
    /\ WF_vars(StartClone)
    /\ WF_vars(ShiftResume)
    /\ WF_vars(CloneStep)
    /\ WF_vars(CloneThen)
    /\ WF_vars(ConsumeInTurn)
    /\ WF_vars(ConsumeResume)
    /\ WF_vars(ConsumeStep)

\* src.clone(count) is called for some count < 1
InitCloneNone ==
    /\ InitQueues
    /\ cfg \in [mode : {"clone"}, n : (0 - MaxClone)..0]
    /\ tasks = <<>>
    /\ proms = <<>>
    /\ winner = 0
    /\ NoBatch
    /\ NoExt

NextCloneNone ==
    \/ PushOne
    \/ EndOnce
    \/ StartClone
    \/ \E kind \in {"map"} : StartDrain(kind)
    \/ ShiftResume
    \/ MapStep

\* clone with a count below 1, and a drain of the source
SpecCloneNone == InitCloneNone /\ [][NextCloneNone]_vars

\* ----------------------------------------------------------------- umerge
onlyThis == {"src"}

\* [this, q]: the two queues umerge maps over; "src" is this, "oth" is q
mergeSources == {"src", "oth"}

anyDone(ids) == \E i \in ids : dr[i].pc = "done"

\* Promise.all over the two map promises is fulfilled
allDone(ids) == \A i \in ids : dr[i].pc = "done"

\* the k-th value the producer of q pushes, distinct from those of this
inputOth(k) == MaxItem + input(k)

\* src.umerge(oth) is called
InitMerge ==
    /\ InitQueues
    /\ cfg = [mode |-> "umerge", n |-> 0]
    /\ tasks = <<>>
    /\ proms = <<>>
    /\ winner = 0
    /\ NoBatch
    /\ NoExt

\* the producer of this calls push(v), until it has ended it
PushThis ==
    /\ ~qs["src"].ended
    /\ qs["src"].pushCount < MaxMerge
    /\ qs' = [qs EXCEPT !["src"] = push(@, <<input(qs["src"].pushCount + 1)>>)]
    /\ pushed' = Append(pushed, input(qs["src"].pushCount + 1))
    /\ last' = [op |-> "push", err |-> NoErr]
    /\ UNCHANGED <<dr, visited, parVars, batVars, extVars>>

\* the producer of q calls q.push(v), until it has ended it
PushOth ==
    /\ ~qs["oth"].ended
    /\ qs["oth"].pushCount < MaxMerge
    /\ qs' = [qs EXCEPT !["oth"] =
                 push(@, <<inputOth(qs["oth"].pushCount + 1)>>)]
    /\ pushedB' = Append(pushedB, inputOth(qs["oth"].pushCount + 1))
    /\ last' = [op |-> "push", err |-> NoErr]
    /\ UNCHANGED <<dr, visited, pushed, parVars, batVars, clones, cdr, got,
                   unhandled, calls, popped>>

\* the producer of q calls q.end(), once
EndOth ==
    /\ ~qs["oth"].ended
    /\ qs' = [qs EXCEPT !["oth"] = end(@)]
    /\ last' = [op |-> "end", err |-> NoErr]
    /\ UNCHANGED <<dr, visited, pushed, parVars, batVars, extVars>>

\* src.umerge(oth): map is called on this, then on q
StartMerge ==
    /\ \A i \in mergeSources : dr[i].pc = "idle"
    /\ LET f0 == [qs |-> qs, dr |-> dr]
           f1 == startMap(f0, "src", "umerge")
           f2 == IF "oth" \in mergeSources THEN startMap(f1, "oth", "umerge")
                 ELSE f1
       IN  /\ qs' = f2.qs
           /\ dr' = f2.dr
    /\ last' = [op |-> "umerge", err |-> NoErr]
    /\ UNCHANGED <<visited, pushed, parVars, batVars, extVars>>

\* one of the two maps receives r and calls outQueue.push(r); then #shift
\* again.  A push that throws makes that map, and Promise.all, fail
MergeStep ==
    \E i \in {"src", "oth"} :
        /\ dr[i].kind = "umerge"
        /\ dr[i].pc = "holding"
        /\ IF dr[i].r = qs[i].eof
           THEN /\ dr' = [dr EXCEPT ![i].pc = "done"]
                /\ UNCHANGED qs
           ELSE IF pushThrows(qs["out"], <<dr[i].r>>) # NoErr
           THEN /\ dr' = [dr EXCEPT ![i].pc = "failed"]
                /\ UNCHANGED qs
           ELSE LET s == shift(qs[i], dr[i])
                IN  /\ qs' = [qs EXCEPT ![i] = s.q,
                                        !["out"] = push(@, <<dr[i].r>>)]
                    /\ dr' = [dr EXCEPT ![i] = s.d]
        /\ last' = Internal
        /\ UNCHANGED <<visited, pushed, parVars, batVars, extVars>>

\* the then-callback of Promise.all: outQueue.end()
MergeThen ==
    /\ allDone(mergeSources)
    /\ ~qs["out"].ended
    /\ qs' = [qs EXCEPT !["out"] = end(@)]
    /\ dr' = [i \in QueueIds |->
                IF dr[i].pc = "done" THEN [dr[i] EXCEPT !.pc = "closed"]
                ELSE dr[i]]
    /\ last' = Internal
    /\ UNCHANGED <<visited, pushed, parVars, batVars, extVars>>

NextMerge ==
    \/ PushThis
    \/ EndOnce
    \/ PushOth
    \/ EndOth
    \/ StartMerge
    \/ ShiftResume
    \/ MergeStep
    \/ MergeThen

SpecMerge == InitMerge /\ [][NextMerge]_vars

\* ------------------------------------------- a combinator on a piped queue
Combinators ==
    {"pipe", "upipe", "split", "usplit", "batch", "flat", "clone", "umerge"}

\* a combinator is about to be called on a queue that is drained already
InitTwice ==
    /\ InitQueues
    /\ cfg \in [mode : Combinators, n : {MaxN}]
    /\ tasks = <<>>
    /\ proms = <<>>
    /\ winner = 0
    /\ NoBatch
    /\ NoExt

\* the combinator is called on src, which is piped.  Each combinator creates
\* its derived queue(s), calls the async map / mapParallel, attaches the
\* then-callback that ends the derived queue(s) and returns them: the throw
\* of #preparePipe rejects the promise of map, the then-callback is skipped,
\* and the promise then returned is rejected with nothing handling it.
\* umerge also calls map on q, whose drain into the merged queue starts
CombineAgain ==
    /\ qs["src"].piped
    /\ unhandled = <<>>
    /\ last' = [op |-> cfg.mode, err |-> NoErr]
    /\ unhandled' = Append(unhandled, preparePipeThrows(qs["src"]))
    /\ clones' = IF cfg.mode = "clone" THEN [i \in 1..2 |-> NewQueue]
                 ELSE clones
    /\ cdr' = IF cfg.mode = "clone" THEN [i \in 1..2 |-> NewDrain] ELSE cdr
    /\ got' = IF cfg.mode = "clone" THEN [i \in 1..2 |-> <<>>] ELSE got
    /\ IF cfg.mode = "umerge"
       THEN LET f == startMap([qs |-> qs, dr |-> dr], "oth", "umerge")
            IN  /\ qs' = f.qs
                /\ dr' = f.dr
       ELSE UNCHANGED <<qs, dr>>
    /\ UNCHANGED <<visited, pushed, parVars, batVars, pushedB, calls, popped>>

NextTwice ==
    \/ PushOne
    \/ EndOnce
    \/ PushOth
    \/ EndOth
    \/ \E kind \in {"map"} : StartDrain(kind)
    \/ ShiftResume
    \/ MapStep
    \/ MergeStep
    \/ CombineAgain

SpecTwice == InitTwice /\ [][NextTwice]_vars

\* ----------------------------------------------- shiftUnsafe, waitForShift
\* waitForShift: a resolver, not called yet, is appended to #shiftResolvers
waitForShift(q) == [q EXCEPT !.shiftResolvers = Append(@, 0)]

\* the arguments of the next push call of k values
inputs(from, k) == [i \in 1..k |-> input(from + i)]

\* the producer calls src.push(...vals) with one or more values
PushSome ==
    \E k \in 1..MaxVals :
        /\ ~qs["src"].ended
        /\ qs["src"].pushCount + k <= MaxSrc
        /\ qs' = [qs EXCEPT !["src"] =
                     push(@, inputs(qs["src"].pushCount, k))]
        /\ pushed' = pushed \o inputs(qs["src"].pushCount, k)
        /\ last' = [op |-> "push", err |-> NoErr]
        /\ UNCHANGED <<dr, visited, parVars, batVars, extVars>>

\* the buffer was not empty when #shift ran: it took the front off
took(q) == IF size(q) > 0 THEN <<shiftFront(q.queue)>> ELSE <<>>

\* src.shiftUnsafe(): a new #shift call runs up to its await or its return
ShiftCall ==
    /\ Len(calls) < MaxShift
    /\ LET s == shift(qs["src"], [NewDrain EXCEPT !.kind = "shiftUnsafe"])
       IN  /\ qs' = [qs EXCEPT !["src"] = s.q]
           /\ calls' = Append(calls, s.d)
    /\ popped' = popped \o took(qs["src"])
    /\ last' = [op |-> "shiftUnsafe", err |-> NoErr]
    /\ UNCHANGED <<dr, visited, pushed, parVars, batVars, clones, cdr, got,
                   pushedB, unhandled>>

\* a suspended shiftUnsafe call resumes after #run and retries
CallResume ==
    \E i \in DOMAIN calls :
        /\ calls[i].pc = "waiting"
        /\ waitForPush(qs["src"], calls[i])
        /\ LET s == shift(qs["src"], calls[i])
           IN  /\ qs' = [qs EXCEPT !["src"] = s.q]
               /\ calls' = [calls EXCEPT ![i] = s.d]
        /\ popped' = popped \o took(qs["src"])
        /\ last' = Internal
        /\ UNCHANGED <<dr, visited, pushed, parVars, batVars, clones, cdr,
                       got, pushedB, unhandled>>

\* src.waitForShift()
WaitForShift ==
    /\ Len(qs["src"].shiftResolvers) < MaxListen
    /\ qs' = [qs EXCEPT !["src"] = waitForShift(@)]
    /\ last' = [op |-> "waitForShift", err |-> NoErr]
    /\ UNCHANGED <<dr, visited, pushed, parVars, batVars, extVars>>

NextShift ==
    \/ PushSome
    \/ EndOnce
    \/ ShiftCall
    \/ CallResume
    \/ WaitForShift

SpecShift == Init /\ [][NextShift]_vars

\* the producer and the shiftUnsafe callers, nobody calling waitForShift
NextWake ==
    \/ PushSome
    \/ EndOnce
    \/ ShiftCall
    \/ CallResume

\* the event loop runs every continuation that is ready
FairShift == Init /\ [][NextWake]_vars /\ WF_vars(CallResume)

\* -------------------------------------------------------------- fromArray
RECURSIVE pushEach(_, _)
\* for (const item of array) queue.push(item)
pushEach(q, array) ==
    IF array = <<>> THEN q
    ELSE pushEach(push(q, <<Head(array)>>), Tail(array))

fromArrayOpen(array) == pushEach(NewQueue, array)

\* Queue.fromArray(array)
fromArray(array) == end(pushEach(NewQueue, array))

\* the arrays passed to fromArray
Arrays == UNION {[1..n -> Items] : n \in 0..MaxArr}

\* src = Queue.fromArray(array), for some array
InitFrom ==
    /\ \E array \in Arrays :
          /\ qs = [i \in QueueIds |->
                      IF i = "src" THEN fromArray(array)
                      ELSE IF i \in ArrayQueueIds THEN NewArrayQueue
                      ELSE NewQueue]
          /\ pushed = array
    /\ dr = [i \in QueueIds |-> NewDrain]
    /\ visited = <<>>
    /\ last = [op |-> "fromArray", err |-> NoErr]
    /\ NoPar
    /\ NoBatch
    /\ NoExt

\* the queue is pushed to, ended, and drained by collect, whose #shift
\* never finds the buffer empty on an open queue
NextFrom ==
    \/ Push
    \/ End
    \/ \E kind \in {"map"} : StartDrain(kind)
    \/ MapStep

SpecFrom == InitFrom /\ [][NextFrom]_vars

\* ---------------------------------------------------------------- collect
\* the producer pushes and ends while collect (map with arr.push as its
\* visitor, arr being visited) drains src
NextCollect ==
    \/ PushOne
    \/ EndOnce
    \/ \E kind \in {"map"} : StartDrain(kind)
    \/ ShiftResume
    \/ MapStep

\* the event loop runs every continuation that is ready; the producer and
\* the caller of collect are not obliged to do anything
FairCollect ==
    /\ Init
    /\ [][NextCollect]_vars
    /\ WF_vars(ShiftResume)
    /\ WF_vars(MapStep)

\* ---------------------------------- ordered combinators whose callback fails
\* the queue the combinator is called on: flat needs a queue of arrays
source(mode) == IF mode = "flat" THEN "bat" ELSE "src"

\* what the producer may push as its k-th item: for flat an array or a value
\* that is no array
produced(mode, k) ==
    IF mode = "flat" THEN {<<>>, <<input(k)>>, scalar(input(k))}
    ELSE {input(k)}

\* how the wrapper a combinator passes to map can fail: the callback throws,
\* or split's callback returns an index other than 0 and 1; flat's wrapper
\* fails in FlatStep
failures(mode) ==
    IF mode = "pipe" THEN {ErrVisitor}
    ELSE IF mode = "split" THEN {ErrVisitor, ErrIndex}
    ELSE {}

\* pipe, split or flat is called on its source
InitOrdFail ==
    /\ InitQueues
    /\ cfg \in [mode : {"pipe", "split", "flat"}, n : {0}]
    /\ tasks = <<>>
    /\ proms = <<>>
    /\ winner = 0
    /\ NoBatch
    /\ NoExt

\* the producer pushes an item onto the source, until it has ended it
Produce ==
    \E x \in produced(cfg.mode, qs[source(cfg.mode)].pushCount + 1) :
        /\ ~qs[source(cfg.mode)].ended
        /\ qs[source(cfg.mode)].pushCount < MaxSrc
        /\ qs' = [qs EXCEPT ![source(cfg.mode)] = push(@, <<x>>)]
        /\ pushed' = IF cfg.mode = "flat" THEN pushed ELSE Append(pushed, x)
        /\ last' = [op |-> "push", err |-> NoErr]
        /\ UNCHANGED <<dr, visited, parVars, batVars, extVars>>

\* the producer ends the source, once
Finish ==
    /\ ~qs[source(cfg.mode)].ended
    /\ qs' = [qs EXCEPT ![source(cfg.mode)] = end(@)]
    /\ last' = [op |-> "end", err |-> NoErr]
    /\ UNCHANGED <<dr, visited, pushed, parVars, batVars, extVars>>

\* map receives an item and the wrapper of pipe / split throws on it
OrdFail ==
    \E err \in failures(cfg.mode) :
        /\ dr["src"].pc = "holding"
        /\ dr["src"].r # qs["src"].eof
        /\ LET s == visitorThrew(qs["src"], dr["src"])
           IN  /\ qs' = [qs EXCEPT !["src"] = s.q]
               /\ dr' = [dr EXCEPT !["src"] = s.d]
        /\ last' = [op |-> "visitor", err |-> err]
        /\ unhandled' = Append(unhandled, err)
        /\ UNCHANGED <<visited, pushed, parVars, batVars, clones, cdr, got,
                       pushedB, calls, popped>>

\* a consumer starts a full drain of a derived queue
DerivedStart ==
    \E t \in derivedOf(cfg.mode) :
        /\ dr[t].pc = "idle"
        /\ LET f == startMap([qs |-> qs, dr |-> dr], t, "consumer")
           IN  /\ qs' = f.qs
               /\ dr' = f.dr
        /\ last' = [op |-> "map", err |-> NoErr]
        /\ UNCHANGED <<visited, pushed, parVars, batVars, extVars>>

\* the drain of a derived queue receives r: stop on the sentinel, else hand
\* r to the consumer and #shift again
DerivedStep ==
    \E t \in derivedOf(cfg.mode) :
        /\ dr[t].pc = "holding"
        /\ dr[t].kind = "consumer"
        /\ IF dr[t].r = qs[t].eof
           THEN /\ dr' = [dr EXCEPT ![t].pc = "done"]
                /\ UNCHANGED qs
           ELSE LET s == shift(qs[t], dr[t])
                IN  /\ qs' = [qs EXCEPT ![t] = s.q]
                    /\ dr' = [dr EXCEPT ![t] = s.d]
        /\ last' = Internal
        /\ UNCHANGED <<visited, pushed, parVars, batVars, extVars>>

NextOrdFail ==
    \/ Produce
    \/ Finish
    \/ StartOrd
    \/ StartFlat
    \/ ShiftResume
    \/ OrdStep
    \/ OrdFail
    \/ FlatStep
    \/ ThenEnd
    \/ FlatThen
    \/ DerivedStart
    \/ DerivedStep

SpecOrdFail == InitOrdFail /\ [][NextOrdFail]_vars

\* ------------------------------------------- chains of ordered combinators
\* a chain is the sequence of its stages: the combinator called, the queue it
\* is called on and the derived queues it creates, in the order it holds
\* them.  The identifiers of QueueIds name the queues of the chain:
\*   src.pipe(f).batch(n).flat()
\*   [q1, q2] = src.clone(2); [out, oth] = q1.split(g); q2.batch(n).flat()
chains ==
    [pipeBatchFlat |->
        << [kind |-> "pipe",  from |-> "src", to |-> <<"out">>],
           [kind |-> "batch", from |-> "out", to |-> <<"bat">>],
           [kind |-> "flat",  from |-> "bat", to |-> <<"flt">>] >>,
     cloneSplitBatchFlat |->
        << [kind |-> "clone", from |-> "src", to |-> <<"q1", "q2">>],
           [kind |-> "split", from |-> "q1",  to |-> <<"out", "oth">>],
           [kind |-> "batch", from |-> "q2",  to |-> <<"bat">>],
           [kind |-> "flat",  from |-> "bat", to |-> <<"flt">>] >>]

\* the stages of the chain in use
chain == chains[cfg.mode]

\* what the callback of a stage may answer for an item: pipe's callback
\* returns undefined or a value, split's a lane; the others have no choice
answers(kind) ==
    IF kind = "pipe" THEN {"skip", "keep"}
    ELSE IF kind = "split" THEN {0, 1}
    ELSE {"none"}

\* the derived queues the visitor of the stage pushes onto for item r
pushedOnto(st, r, a) ==
    IF st.kind = "pipe" THEN (IF a = "skip" THEN {} ELSE {st.to[1]})
    ELSE IF st.kind = "split" THEN {st.to[a + 1]}
    ELSE IF st.kind = "batch"
         THEN (IF batchFull(Append(buffer, r), bn) THEN {st.to[1]} ELSE {})
    ELSE {st.to[k] : k \in DOMAIN st.to}

\* the arguments of that push
pushedVals(st, r) ==
    IF st.kind \in {"pipe", "split"} THEN <<transform(r)>>
    ELSE IF st.kind = "batch" THEN <<Append(buffer, r)>>
    ELSE IF st.kind = "flat" THEN r
    ELSE <<r>>

\* batch's buffer after its visitor was called with r
bufferAfter(st, r) ==
    IF st.kind # "batch" THEN buffer
    ELSE IF batchFull(Append(buffer, r), bn) THEN <<>>
    ELSE Append(buffer, r)

RECURSIVE startAll(_, _)
\* the combinators of the chain are called one after another: each calls
\* map on its source, which runs up to its first await
startAll(f, sts) ==
    IF sts = <<>> THEN f
    ELSE startAll(startMap(f, Head(sts).from, Head(sts).kind), Tail(sts))

\* a chain is chosen, and the group size of its batch: 2 or more, as with 1
\* every item is a group
InitChain ==
    /\ InitQueues
    /\ cfg \in [mode : DOMAIN chains, n : {0}]
    /\ tasks = <<>>
    /\ proms = <<>>
    /\ winner = 0
    /\ bn \in 2..MaxChain
    /\ buffer = <<>>
    /\ batches = <<>>
    /\ NoExt

\* the producer of the source calls src.push(v), until it has ended it
Feed ==
    /\ ~qs["src"].ended
    /\ qs["src"].pushCount < MaxChain
    /\ qs' = [qs EXCEPT !["src"] = push(@, <<input(qs["src"].pushCount + 1)>>)]
    /\ pushed' = Append(pushed, input(qs["src"].pushCount + 1))
    /\ last' = [op |-> "push", err |-> NoErr]
    /\ UNCHANGED <<dr, visited, parVars, batVars, extVars>>

\* the statement(s) that build the chain run
StartChain ==
    /\ dr["src"].pc = "idle"
    /\ LET f == startAll([qs |-> qs, dr |-> dr], chain)
       IN  /\ qs' = f.qs
           /\ dr' = f.dr
    /\ last' = [op |-> "chain", err |-> NoErr]
    /\ UNCHANGED <<visited, pushed, parVars, batVars, extVars>>

\* the map of a stage receives r: stop on the sentinel, else call the
\* stage's visitor, which pushes onto derived queues, and #shift again; a
\* push that throws makes the map fail
StageStep ==
    \E k \in DOMAIN chain :
        \E a \in answers(chain[k].kind) :
            LET st == chain[k]
                r  == dr[st.from].r
                ts == pushedOnto(st, r, a)
                s  == shift(qs[st.from], dr[st.from])
            IN  /\ dr[st.from].pc = "holding"
                /\ dr[st.from].kind = st.kind
                /\ IF r = qs[st.from].eof
                   THEN /\ dr' = [dr EXCEPT ![st.from].pc = "done"]
                        /\ UNCHANGED <<qs, buffer, unhandled>>
                   ELSE IF \E t \in ts :
                              pushThrows(qs[t], pushedVals(st, r)) # NoErr
                   THEN /\ dr' = [dr EXCEPT ![st.from].pc = "failed"]
                        /\ unhandled' = Append(unhandled, ErrEnded)
                        /\ UNCHANGED <<qs, buffer>>
                   ELSE /\ qs' = [i \in QueueIds |->
                                    IF i = st.from THEN s.q
                                    ELSE IF i \in ts
                                    THEN push(qs[i], pushedVals(st, r))
                                    ELSE qs[i]]
                        /\ dr' = [dr EXCEPT ![st.from] = s.d]
                        /\ buffer' = bufferAfter(st, r)
                        /\ UNCHANGED unhandled
    /\ last' = Internal
    /\ UNCHANGED <<visited, pushed, parVars, bn, batches, clones, cdr, got,
                   pushedB, calls, popped>>

\* the queue batch's then-callback ends, after its flush
flushed(st, q) ==
    IF st.kind = "batch" /\ batchFlush(buffer) THEN push(q, <<buffer>>)
    ELSE q

\* the then-callback of a stage whose map is fulfilled: batch pushes a
\* non-empty buffer, and every derived queue of the stage is ended; an end
\* that throws rejects the promise then returned, which nothing handles
StageThen ==
    \E k \in DOMAIN chain :
        LET st == chain[k]
            ts == {st.to[j] : j \in DOMAIN st.to}
        IN  /\ drainFulfilled(dr[st.from])
            /\ dr[st.from].kind = st.kind
            /\ qs' = [i \in QueueIds |->
                        IF i \in ts THEN end(flushed(st, qs[i])) ELSE qs[i]]
            /\ dr' = [dr EXCEPT ![st.from].pc = "closed"]
            /\ unhandled' =
                  IF \E t \in ts : endThrows(flushed(st, qs[t])) # NoErr
                  THEN Append(unhandled, ErrEnded) ELSE unhandled
    /\ last' = Internal
    /\ UNCHANGED <<visited, pushed, parVars, batVars, clones, cdr, got,
                   pushedB, calls, popped>>

NextChain ==
    \/ Feed
    \/ EndOnce
    \/ StartChain
    \/ ShiftResume
    \/ StageStep
    \/ StageThen

\* the program builds the chain, the producer ends the source, and the
\* event loop runs every continuation that is ready; the producer is not
\* obliged to push
FairChain ==
    /\ InitChain
    /\ [][NextChain]_vars
    /\ WF_vars(EndOnce)
    /\ WF_vars(StartChain)
    /\ WF_vars(ShiftResume)
    /\ WF_vars(StageStep)
    /\ WF_vars(StageThen)

\* ------------------------------------------------------ a visitor that throws
\* map's loop receives an item and the visitor throws on it
MapThrow ==
    /\ dr["src"].pc = "holding"
    /\ dr["src"].kind = "map"
    /\ dr["src"].r # qs["src"].eof
    /\ LET s == visitorThrew(qs["src"], dr["src"])
       IN  /\ qs' = [qs EXCEPT !["src"] = s.q]
           /\ dr' = [dr EXCEPT !["src"] = s.d]
    /\ visited' = Append(visited, dr["src"].r)
    /\ last' = [op |-> "visitor", err |-> ErrVisitor]
    /\ UNCHANGED <<pushed, parVars, batVars, extVars>>

NextThrow ==
    \/ PushOne
    \/ EndOnce
    \/ \E kind \in {"map"} : StartDrain(kind)
    \/ ShiftResume
    \/ MapStep
    \/ MapThrow

SpecThrow == Init /\ [][NextThrow]_vars

\* ------------------------------------------------------------- properties
IsPrefix(s, t) == Len(s) <= Len(t) /\ SubSeq(t, 1, Len(s)) = s

\* C1: the visitor of a full drain is called with the accepted items in push
\* order, each once, and the drain completes only after the queue was ended
\* and every accepted item was visited.
C1_FifoDrain ==
    /\ IsPrefix(visited, pushed)
    /\ dr["src"].pc = "done" => (qs["src"].ended /\ visited = pushed)

C1_Witness ==
    /\ dr["src"].pc = "done"
    /\ Len(visited) = MaxPush
    /\ visited[1] # visited[2]
    /\ qs["src"].prom > 2

\* C2: once a drain was started, a later attempt to start one throws
\* 'Queue already piped' and changes neither the queue nor the running drain
\* nor what was delivered.
C2_SecondDrainFails ==
    [][(qs["src"].piped /\ last'.op \in {"map", "iter"})
         => (last'.err = ErrPiped /\ qs' = qs /\ dr' = dr
             /\ visited' = visited)]_vars

C2_Witness ==
    /\ last.op \in {"map", "iter"}
    /\ last.err = ErrPiped
    /\ size(qs["src"]) > 1
    /\ dr["src"].pc = "holding"

\* C3: on an ended queue every push and every end throws and leaves buffer,
\* pushCount and ended as they were.
C3_AfterEndFails ==
    [][(qs["src"].ended /\ last'.op \in {"push", "end"})
         => (last'.err = ErrEnded
             /\ qs'["src"].queue = qs["src"].queue
             /\ qs'["src"].pushCount = qs["src"].pushCount
             /\ qs'["src"].ended)]_vars

C3_Witness ==
    /\ qs["src"].ended
    /\ last.op = "push"
    /\ last.err = ErrEnded
    /\ size(qs["src"]) > 1

\* C4: the promise of waitForEnd is unresolved while end was not called, is
\* resolved from the call of end on whatever is still buffered, and
\* #resolveEnd is called once.
C4_WaitForEnd ==
    /\ waitForEnd(qs["src"]) <=> qs["src"].ended
    /\ qs["src"].resolveEndCalls <= 1

C4_Witness ==
    /\ waitForEnd(qs["src"])
    /\ ~qs["src"].piped
    /\ size(qs["src"]) > 2

\* non-sentinel items removed from src so far: those visited and the one a
\* drain was handed and has not visited yet
removedItems ==
    Len(visited)
      + (IF dr["src"].pc = "holding" /\ dr["src"].r # EOF THEN 1 ELSE 0)

\* C5: size() = pushCount() - (items removed, the sentinel not counted).
C5_SizeLaw == size(qs["src"]) = pushCount(qs["src"]) - removedItems

\* ---------------------------------- properties of the unordered combinators
\* the items a queue holds, the sentinel left out
items(q) == SelectSeq(q.queue, LAMBDA x : x # q.eof)

count(sq, x) == Cardinality({k \in DOMAIN sq : sq[k] = x})

SameMultiset(sq, tq) == \A x \in Items : count(sq, x) = count(tq, x)

\* the visitor invocations launched and not settled
inFlight == {i \in DOMAIN tasks : tasks[i].st = "running"}

\* what the callback returned for each launched task
results == [i \in DOMAIN tasks |-> tasks[i].r]

lanes == [i \in DOMAIN tasks |-> tasks[i].lane]

\* the results the callback did not skip, with their lanes
kept == {i \in DOMAIN tasks : tasks[i].r # EOF}

keptResults == pipeOut(results)

keptLanes == [k \in 1..Len(keptResults) |->
                lanes[CHOOSE i \in kept :
                        Cardinality({j \in kept : j <= i}) = k]]

\* C6: under mapParallel(visitor, n), n >= 1, at most n visitor invocations
\* are launched and not yet settled.
C6_ParallelismBound ==
    dr["src"].kind = "mapParallel" => Cardinality(inFlight) <= cfg.n

C6_Witness ==
    /\ dr["src"].kind = "mapParallel"
    /\ dr["src"].pc = "racing"
    /\ cfg.n = MaxN
    /\ Cardinality(inFlight) = cfg.n
    /\ size(qs["src"]) > 0
    /\ \E i \in DOMAIN tasks : tasks[i].st = "fulfilled"

\* C7: with finite n >= 1, no wrapper push is ever refused, and once a
\* derived queue of upipe / usplit is ended every source item has been
\* processed and the derived queues hold, as multisets, what pipe / split
\* deliver for the same callback results.
C7_UnorderedEquivalence ==
    cfg.n # Infinity =>
        /\ \A i \in DOMAIN tasks : tasks[i].st # "rejected"
        /\ (\E t \in derivedOf(cfg.mode) : qs[t].ended) =>
              /\ \A t \in derivedOf(cfg.mode) : qs[t].ended
              /\ inFlight = {}
              /\ [i \in DOMAIN tasks |-> tasks[i].v] = pushed
              /\ cfg.mode = "upipe" =>
                    SameMultiset(items(qs["out"]), pipeOut(results))
              /\ cfg.mode = "usplit" =>
                    /\ SameMultiset(items(qs["q1"]),
                                    splitOut(keptResults, keptLanes, 0))
                    /\ SameMultiset(items(qs["q2"]),
                                    splitOut(keptResults, keptLanes, 1))

C7_Witness ==
    /\ cfg.n = MaxN
    /\ cfg.mode = "upipe"
    /\ qs["out"].ended
    /\ Len(tasks) = MaxSrc
    /\ \E i \in DOMAIN tasks : tasks[i].r = EOF
    /\ Len(items(qs["out"])) > 1
    /\ items(qs["out"]) # pipeOut(results)

\* C8: upipe / usplit with n = Infinity behave as pipe / split: a derived
\* queue is ended only after every result was pushed, and the derived queues
\* then hold what pipe / split deliver, in source order.
C8_InfinityIsOrdered ==
    cfg.n = Infinity =>
        /\ (\E t \in derivedOf(cfg.mode) : qs[t].ended) => inFlight = {}
        /\ \A i \in DOMAIN tasks : tasks[i].st # "rejected"
        /\ inFlight = {} =>
              /\ cfg.mode = "upipe" => items(qs["out"]) = pipeOut(results)
              /\ cfg.mode = "usplit" =>
                    /\ items(qs["q1"]) = splitOut(keptResults, keptLanes, 0)
                    /\ items(qs["q2"]) = splitOut(keptResults, keptLanes, 1)

\* ------------------------------------------- properties of batch and flat
RECURSIVE concat(_)
\* the elements of a sequence of arrays, in order
concat(ss) == IF ss = <<>> THEN <<>> ELSE Head(ss) \o concat(Tail(ss))

\* C9: draining flat(batch(S, n)) delivers S unchanged and in order, and the
\* queue is ended only when all of S is on it.
C9_BatchFlatRoundTrip ==
    /\ IsPrefix(items(qs["flt"]), pushed)
    /\ qs["flt"].ended => (qs["src"].ended /\ items(qs["flt"]) = pushed)

C9_Witness ==
    /\ qs["flt"].ended
    /\ Len(pushed) = MaxSrc
    /\ bn = 2
    /\ Len(batches) = 2
    /\ pushed[1] # pushed[2]

\* C10: the queue derived by batch(n) delivers groups of exactly n items,
\* except a last one of 1..n items; their concatenation is the source
\* sequence, and when the derived queue's drain completes there are
\* ceil(k/n) of them for a source of k items.
C10_BatchGroups ==
    /\ \A k \in DOMAIN batches :
          /\ Len(batches[k]) >= 1
          /\ Len(batches[k]) <= bn
          /\ k < Len(batches) => Len(batches[k]) = bn
    /\ IsPrefix(concat(batches), pushed)
    /\ dr["bat"].pc \in {"done", "closed"} =>
          /\ qs["bat"].ended
          /\ concat(batches) = pushed
          /\ Len(batches) = (Len(pushed) + bn - 1) \div bn

C10_Witness ==
    /\ dr["bat"].pc = "done"
    /\ bn = 2
    /\ Len(pushed) = 3
    /\ Len(batches) = 2
    /\ Len(batches[2]) = 1

\* ---------------------------------------------------- properties of clone
\* the item a drain was handed and has not passed on yet
held(d, q) == IF d.pc = "holding" /\ d.r # q.eof THEN <<d.r>> ELSE <<>>

\* what clone i has delivered and has still to deliver
cloneSeq(i) == got[i] \o held(cdr[i], clones[i]) \o items(clones[i])

\* the items the drain over src has visited
srcVisited ==
    SubSeq(pushed, 1,
           Len(pushed) - Len(items(qs["src"]))
                       - Len(held(dr["src"], qs["src"])))

\* C11: every clone delivers exactly the items the source drain visited, in
\* source order; the clones are ended together once the source drain has
\* completed, each then carrying the whole source sequence.
C11_CloneDelivers ==
    \A i \in DOMAIN clones :
        /\ cloneSeq(i) = srcVisited
        /\ clones[i].ended <=> dr["src"].pc = "closed"
        /\ clones[i].ended => cloneSeq(i) = pushed
        /\ cdr[i].pc = "done" => got[i] = pushed

C11_Witness ==
    /\ DOMAIN clones = 1..MaxClone
    /\ Len(pushed) = MaxSrc
    /\ \A i \in DOMAIN clones : clones[i].ended
    /\ cdr[MaxClone].pc = "done"
    /\ cdr[1].pc = "waiting"
    /\ got[1] # <<>>

\* --------------------------------------------------- properties of umerge
\* the values the two producers may push
MergeItems == 1..(2 * MaxItem)

\* C12: the merged queue holds each item the two drains have visited exactly
\* once, whatever the interleaving of the two drain loops; once it is ended
\* its multiset is the union of what was pushed onto this and onto q.
C12_MergeMultiset ==
    /\ \A x \in MergeItems :
          count(items(qs["out"]), x)
              = count(pushed, x) + count(pushedB, x)
                - count(items(qs["src"]) \o held(dr["src"], qs["src"]), x)
                - count(items(qs["oth"]) \o held(dr["oth"], qs["oth"]), x)
    /\ qs["out"].ended =>
          \A x \in MergeItems :
              count(items(qs["out"]), x) = count(pushed, x) + count(pushedB, x)

C12_Witness ==
    /\ qs["out"].ended
    /\ Len(pushed) = MaxMerge
    /\ Len(pushedB) = MaxMerge
    /\ items(qs["out"])[1] = pushedB[1]
    /\ items(qs["out"])[2 * MaxMerge] = pushedB[MaxMerge]

\* C13: the merged queue is ended only when both drains have completed, both
\* sources being ended and empty; neither map ever fails on a push after the
\* end, and with an open source the merged queue is open.
C13_MergeEndsAfterBoth ==
    /\ qs["out"].ended =>
          \A i \in {"src", "oth"} :
              /\ dr[i].pc = "closed"
              /\ qs[i].ended
              /\ items(qs[i]) = <<>>
    /\ \A i \in {"src", "oth"} : dr[i].pc # "failed"

C13_Witness ==
    /\ qs["out"].ended
    /\ pushed # <<>>
    /\ pushedB # <<>>

\* ------------------------------------------- properties of pipe and split
\* the source items the wrapper c was called with
processed == [i \in DOMAIN tasks |-> tasks[i].v]

\* C14: the queue derived by pipe holds, in source order, what the callback
\* returned for each visited source item, the undefined results left out; it
\* is ended exactly when the source drain has completed, all source items
\* being processed then.
C14_PipeOrdered ==
    cfg.mode = "pipe" =>
        /\ processed = srcVisited
        /\ items(qs["out"]) = pipeOut(results)
        /\ dr["src"].pc # "failed"
        /\ qs["out"].ended <=> dr["src"].pc = "closed"
        /\ qs["out"].ended =>
              /\ qs["src"].ended
              /\ processed = pushed

C14_Witness ==
    /\ cfg.mode = "pipe"
    /\ qs["out"].ended
    /\ Len(pushed) = MaxSrc
    /\ \E i \in DOMAIN tasks : tasks[i].r = EOF
    /\ \E i \in DOMAIN tasks : tasks[i].r \notin {EOF, tasks[i].v}
    /\ Len(items(qs["out"])) > 1

\* C15: each queue derived by split holds, in source order, the values whose
\* lane selected it and no others; the two queues are ended together, exactly
\* when the source drain has completed.
C15_SplitLanes ==
    cfg.mode = "split" =>
        /\ processed = srcVisited
        /\ items(qs["q1"]) = splitOut(results, lanes, 0)
        /\ items(qs["q2"]) = splitOut(results, lanes, 1)
        /\ dr["src"].pc # "failed"
        /\ qs["q1"].ended <=> dr["src"].pc = "closed"
        /\ qs["q2"].ended <=> dr["src"].pc = "closed"
        /\ qs["q1"].ended => processed = pushed

C15_Witness ==
    /\ cfg.mode = "split"
    /\ qs["q1"].ended
    /\ qs["q2"].ended
    /\ Len(pushed) = MaxSrc
    /\ Len(items(qs["q1"])) > 1
    /\ items(qs["q2"]) # <<>>

\* C16: when the clones are drained one after another, each drain started
\* when the one before it has completed, then once the source is ended every
\* one of the drains completes, having received the whole source sequence.
C16_SequentialClones ==
    qs["src"].ended ~>
        /\ DOMAIN clones = 1..cfg.n
        /\ \A i \in 1..cfg.n : cdr[i].pc = "done" /\ got[i] = pushed

C16_Witness ==
    /\ DOMAIN clones = 1..MaxClone
    /\ Len(pushed) = MaxSrc
    /\ cdr[1].pc = "done"
    /\ got[1] = pushed
    /\ cdr[MaxClone].pc = "idle"
    /\ items(clones[MaxClone]) = pushed
    /\ clones[MaxClone].ended

\* ------------------------------ properties of a combinator on a piped queue
\* C17: a combinator called on a queue that is piped already throws 'Queue
\* already piped' to its caller.
C17_CombinatorFails ==
    [][(qs["src"].piped /\ last'.op \in Combinators)
         => last'.err = ErrPiped]_vars

\* ------------------------------------------------ properties of mapParallel
\* C18: mapParallel never fails because a visitor task failed.
C18_FailureAbsorbed ==
    dr["src"].kind = "mapParallel" => dr["src"].pc # "failed"

\* C19: mapParallel completes only when the sentinel of the source has been
\* taken and every task it launched has settled, every source item having
\* been processed; with finite n a queue derived by upipe / usplit is ended
\* only when no task is in flight.
C19_CompletesAfterTasks ==
    dr["src"].kind = "mapParallel" =>
        /\ dr["src"].pc \in {"done", "closed"} =>
              /\ qs["src"].ended
              /\ qs["src"].queue = <<>>
              /\ processed = pushed
              /\ inFlight = {}
        /\ (\E t \in derivedOf(cfg.mode) : qs[t].ended) =>
              /\ dr["src"].pc = "closed"
              /\ inFlight = {}

C19_Witness ==
    /\ dr["src"].kind = "mapParallel"
    /\ dr["src"].pc = "closed"
    /\ cfg.n = MaxN
    /\ Len(proms) > 0
    /\ Len(tasks) = MaxSrc
    /\ \A t \in derivedOf(cfg.mode) : qs[t].ended
    /\ \E i \in DOMAIN tasks : tasks[i].st = "rejected"
    /\ \E i \in DOMAIN tasks : tasks[i].st = "fulfilled"

\* the tasks of the window that have settled
settledInWindow == {k \in DOMAIN proms : tasks[proms[k]].st # "running"}

\* C20: while mapParallel waits with a full window, the race is decided as
\* soon as any task of the window has settled, whatever its position, and by
\* a settled task; the task the race removes from the window has settled,
\* and the next source item is then asked for.
C20_RaceAnyTask ==
    /\ [](dr["src"].pc = "racing" =>
            /\ Len(proms) = cfg.n
            /\ settledInWindow # {} <=> winner # 0
            /\ winner # 0 => winner \in settledInWindow)
    /\ [][(dr["src"].pc = "racing" /\ proms' # proms) =>
            /\ winner \in settledInWindow
            /\ proms' = filterOut(proms, winner)
            /\ dr'["src"].pc \in {"waiting", "holding"}]_vars

C20_Witness ==
    /\ cfg.n = MaxN
    /\ Len(tasks) = MaxN + 1
    /\ tasks[1].st = "running"
    /\ indexOf(proms, 1) = 1
    /\ indexOf(proms, MaxN + 1) = MaxN
    /\ Len(proms) = MaxN

\* ------------------------------------------------------ properties of push
\* the argument lists that hold the sentinel
WithSentinel == {vals \in ValSeqs : \E i \in DOMAIN vals : vals[i] = EOF}

\* C21: push throws for every argument list that holds the sentinel, at any
\* position; a push that throws leaves the buffer, pushCount, #prom and the
\* suspended removals as they were, and a push that returns has appended its
\* arguments, none of them the sentinel.
C21_SentinelRejected ==
    /\ [](\A vals \in WithSentinel :
            /\ pushThrows(qs["src"], vals) \in {ErrEnded, ErrUndefined}
            /\ ~qs["src"].ended => pushThrows(qs["src"], vals) = ErrUndefined
            /\ push(qs["src"], vals) = qs["src"])
    /\ [][last'.op = "push" =>
            IF last'.err # NoErr
            THEN qs' = qs /\ dr' = dr /\ pushed' = pushed
            ELSE \E vals \in ValSeqs \ WithSentinel :
                    /\ qs'["src"].queue = qs["src"].queue \o vals
                    /\ qs'["src"].pushCount = qs["src"].pushCount + Len(vals)
                    /\ pushed' = pushed \o vals]_vars

C21_Witness ==
    /\ last.op = "push"
    /\ last.err = ErrUndefined
    /\ size(qs["src"]) > 0
    /\ pushCount(qs["src"]) > size(qs["src"])
    /\ dr["src"].pc = "holding"

\* ------------------------------ properties of shiftUnsafe and waitForShift
\* the step took an element, item or sentinel, off the buffer of src
removal == Len(qs'["src"].queue) < Len(qs["src"].queue)

\* the resolvers registered before the step
listeners == DOMAIN qs["src"].shiftResolvers

\* C22: a step that removes an element from the buffer, the sentinel
\* included, calls every resolver that waitForShift registered before it,
\* each once; no other step calls a resolver, in particular not a #shift
\* that finds the buffer empty.
C22_ListenersFired ==
    [][/\ Len(qs'["src"].shiftResolvers) >= Len(qs["src"].shiftResolvers)
       /\ \A i \in listeners :
             qs'["src"].shiftResolvers[i] =
                 qs["src"].shiftResolvers[i] + (IF removal THEN 1 ELSE 0)]_vars

C22_Witness ==
    /\ Len(qs["src"].shiftResolvers) = MaxListen
    /\ \A i \in listeners : qs["src"].shiftResolvers[i] = 1
    /\ popped = <<EOF>>
    /\ Len(calls) > 1

\* a shiftUnsafe call suspended on a #prom that no #run has resolved
blocked(c) ==
    c.pc = "waiting" /\ ~waitForPush(qs["src"], c)

\* the i-th shiftUnsafe call, not started if it was not made yet
callAt(i) == IF i \in DOMAIN calls THEN calls[i] ELSE NewDrain

\* C27: a suspended removal is blocked only while the buffer is empty and
\* the queue is open; a removal that is suspended when the queue is ended
\* with no item buffered eventually returns the sentinel.
C27_EndWakesAll ==
    /\ [](\A i \in DOMAIN calls :
            blocked(calls[i]) => size(qs["src"]) = 0 /\ ~qs["src"].ended)
    /\ \A i \in 1..MaxShift :
          (/\ callAt(i).pc = "waiting"
           /\ qs["src"].ended
           /\ items(qs["src"]) = <<>>)
            ~> (callAt(i).pc = "holding" /\ callAt(i).r = EOF)

C27_Witness ==
    /\ Len(calls) = MaxShift
    /\ \A i \in DOMAIN calls : calls[i].pc = "waiting"
    /\ pushed = <<>>
    /\ last.op = "end"
    /\ qs["src"].ended

\* the shiftUnsafe calls that returned item x
returnedTo(x) ==
    {i \in DOMAIN calls : calls[i].pc = "holding" /\ calls[i].r = x}

\* C28: with several removals suspended or not, what was taken off the
\* buffer followed by what it still holds is what was pushed, so items leave
\* in FIFO order; every item taken was returned by exactly one removal; a
\* removal returns the sentinel only once the queue is ended; and a woken
\* removal that finds the buffer empty and the queue open suspends again.
C28_OneItemOneRemoval ==
    /\ [](/\ SelectSeq(popped, LAMBDA x : x # EOF) \o items(qs["src"]) = pushed
          /\ \A x \in Items : Cardinality(returnedTo(x)) = count(popped, x)
          /\ returnedTo(EOF) # {} => qs["src"].ended)
    /\ [][\A i \in DOMAIN calls :
            (/\ calls[i].pc = "waiting"
             /\ calls'[i] # calls[i]
             /\ size(qs["src"]) = 0
             /\ ~qs["src"].ended)
              => (calls'[i].pc = "waiting" /\ blocked(calls[i])')]_vars

C28_Witness ==
    /\ Len(calls) = MaxShift
    /\ pushed # <<>>
    /\ popped = pushed
    /\ ~qs["src"].ended
    /\ \E i \in DOMAIN calls : blocked(calls[i]) /\ calls[i].awaits > 0
    /\ \E i \in DOMAIN calls : i > 1 /\ calls[i].r = pushed[1]

\* C29: a shiftUnsafe call that finds the buffer empty returns the sentinel
\* at once when the queue is ended and suspends when it is open, touching
\* nothing; a suspended call leaves its await only after a later #run.
C29_EmptyRemoval ==
    [][/\ (last'.op = "shiftUnsafe" /\ size(qs["src"]) = 0) =>
            /\ qs' = qs
            /\ popped' = popped
            /\ IF qs["src"].ended
               THEN /\ calls'[Len(calls')].pc = "holding"
                    /\ calls'[Len(calls')].r = EOF
               ELSE blocked(calls'[Len(calls')])
       /\ \A i \in DOMAIN calls :
             (calls[i].pc = "waiting" /\ calls'[i] # calls[i])
               => ~blocked(calls[i])]_vars

C29_Witness ==
    /\ Len(calls) = MaxShift
    /\ \A i \in DOMAIN calls :
          calls[i].pc = "holding" /\ calls[i].r = EOF /\ calls[i].awaits = 0
    /\ last.op = "shiftUnsafe"

\* C30: a removal leaves no resolver registered, and no resolver is called
\* twice.
C30_ListenersCleared ==
    /\ [](\A i \in listeners : qs["src"].shiftResolvers[i] <= 1)
    /\ [][removal => qs'["src"].shiftResolvers = <<>>]_vars

\* ------------------------------------------------- properties of fromArray
\* C23: the queue fromArray(array) returns is ended with pushCount the
\* length of array and, until it is drained, buffers array followed by the
\* sentinel; every push and every end on it throws and changes nothing; and
\* collect on it yields array.
C23_FromArray ==
    /\ qs["src"].ended
    /\ pushCount(qs["src"]) = Len(pushed)
    /\ ~qs["src"].piped => qs["src"].queue = pushed \o <<EOF>>
    /\ \A vals \in ValSeqs :
          /\ pushThrows(qs["src"], vals) = ErrEnded
          /\ push(qs["src"], vals) = qs["src"]
    /\ endThrows(qs["src"]) = ErrEnded
    /\ end(qs["src"]) = qs["src"]
    /\ last.op \in {"push", "end"} => last.err = ErrEnded
    /\ IsPrefix(visited, pushed)
    /\ dr["src"].pc = "done" => visited = pushed

C23_Witness ==
    /\ dr["src"].pc = "done"
    /\ Len(pushed) = MaxArr
    /\ visited = pushed
    /\ last.op = "push"

\* --------------------------------------------------- properties of collect
\* C24: collect / map is resolved only on an ended queue, so never on a
\* queue that is never ended, and then with every item that was pushed,
\* whether before or after it was started; once the queue is ended a
\* collect that was started is eventually resolved.
C24_CollectResolves ==
    /\ [](dr["src"].pc = "done" => qs["src"].ended /\ visited = pushed)
    /\ (qs["src"].ended /\ dr["src"].kind = "map") ~> dr["src"].pc = "done"

C24_Witness ==
    /\ dr["src"].pc = "done"
    /\ Len(pushed) = MaxSrc
    /\ visited = pushed
    /\ dr["src"].awaits = MaxSrc - 1

\* -------------------------------------- properties of a visitor that throws
\* C25: the step in which the visitor of map throws makes map fail and
\* removes nothing; from then on the drain stays failed, nothing is visited
\* or removed, the queue stays piped and every new map on it throws 'Queue
\* already piped'.
C25_VisitorAborts ==
    [][/\ last'.err = ErrVisitor =>
            /\ dr'["src"].pc = "failed"
            /\ qs' = qs
            /\ visited' = Append(visited, dr["src"].r)
       /\ dr["src"].pc = "failed" =>
            /\ dr' = dr
            /\ visited' = visited
            /\ IsPrefix(qs["src"].queue, qs'["src"].queue)
            /\ qs'["src"].piped
            /\ last'.op = "map" => last'.err = ErrPiped]_vars

C25_Witness ==
    /\ dr["src"].pc = "failed"
    /\ Len(visited) > 1
    /\ items(qs["src"]) # <<>>
    /\ last.op = "map"
    /\ last.err = ErrPiped

\* ------------------------- properties of an ordered combinator that fails
\* the drain pipe / split / flat runs on its source has failed
failedDrain == dr[source(cfg.mode)].pc = "failed"

Failures == {ErrVisitor, ErrIndex, ErrNotArray}

\* the consumer of derived queue t removes the item at the front, or t's
\* buffer is left alone
deliversOrKeeps(t) ==
    \/ qs'[t].queue = qs[t].queue
    \/ /\ qs[t].queue # <<>>
       /\ qs'[t].queue = Tail(qs[t].queue)
       /\ dr'[t].pc = "holding"
       /\ dr'[t].r = Head(qs[t].queue)

\* the step in which the callback fails makes the drain fail and leaves the
\* derived queues as they are
failsLeavingDerived ==
    last'.err \in Failures =>
        /\ failedDrain'
        /\ \A t \in derivedOf(cfg.mode) : qs'[t] = qs[t]

\* after the failure nothing is pushed to a derived queue
staysFailed ==
    failedDrain =>
        /\ failedDrain'
        /\ \A t \in derivedOf(cfg.mode) :
              /\ pushCount(qs'[t]) = pushCount(qs[t])
              /\ deliversOrKeeps(t)

\* C26: once the callback of pipe, split or flat has failed on an item, no
\* derived queue is ever ended and no drain of a derived queue completes;
\* the failing step leaves the derived queues as they are, afterwards
\* nothing is pushed to them and the items they hold leave only by being
\* handed to their consumer, who is never stuck while items are buffered.
C26_DerivedNeverEnded ==
    /\ [](failedDrain =>
            \A t \in derivedOf(cfg.mode) :
                /\ ~qs[t].ended
                /\ dr[t].pc # "done"
                /\ \/ dr[t].pc # "waiting"
                   \/ size(qs[t]) = 0
                   \/ waitForPush(qs[t], dr[t]))
    /\ [][failsLeavingDerived /\ staysFailed]_vars

C26_Witness ==
    /\ failedDrain
    /\ unhandled # <<>>
    /\ \E t \in derivedOf(cfg.mode) :
          /\ pushCount(qs[t]) > 0
          /\ size(qs[t]) = 0
          /\ dr[t].pc = "waiting"
          /\ ~waitForPush(qs[t], dr[t])

\* --------------------------------------- invariants of the buffer and flags
\* the positions of the buffer that hold the sentinel
sentinels(q) == {k \in DOMAIN q.queue : q.queue[k] = q.eof}

\* C33: the buffer of the queue holds at most one sentinel, only once the
\* queue was ended, and then the sentinel is its last element.
C33_SentinelLast ==
    /\ Cardinality(sentinels(qs["src"])) <= 1
    /\ sentinels(qs["src"]) \subseteq {size(qs["src"])}
    /\ sentinels(qs["src"]) # {} => qs["src"].ended

C33_Witness ==
    /\ sentinels(qs["src"]) = {size(qs["src"])}
    /\ size(qs["src"]) = MaxPush + 1
    /\ last.op \in {"push", "end"}
    /\ last.err = ErrEnded

\* the call just made started a full drain
drainStarted == last'.op \in {"map", "iter"} /\ last'.err = NoErr

\* piped and ended are never reset; piped is set by the call that starts
\* the first drain and by nothing else, ended by end and by nothing else
flagsLatch ==
    /\ qs["src"].piped => qs'["src"].piped
    /\ qs["src"].ended => qs'["src"].ended
    /\ (qs'["src"].piped /\ ~qs["src"].piped) <=> drainStarted
    /\ (qs'["src"].ended /\ ~qs["src"].ended)
         <=> (last'.op = "end" /\ last'.err = NoErr)

\* C34: piped and ended are false on a new queue; while piped is false no
\* drain has started and nothing was removed; the call that starts the
\* first drain sets piped; neither flag ever reverts to false, and ended
\* becomes true in a successful end and nowhere else.
C34_FlagsLatch ==
    /\ [](last.op = "new" => (~qs["src"].piped /\ ~qs["src"].ended))
    /\ [](~qs["src"].piped =>
            /\ dr["src"].pc = "idle"
            /\ visited = <<>>
            /\ items(qs["src"]) = pushed)
    /\ [](dr["src"].pc # "idle" => qs["src"].piped)
    /\ [][flagsLatch]_vars

C34_Witness ==
    /\ qs["src"].piped
    /\ qs["src"].ended
    /\ dr["src"].pc = "done"
    /\ Len(visited) = MaxPush
    /\ last.op \in {"map", "iter"}
    /\ last.err = ErrPiped

\* what a call does to pushCount(): a successful push adds the number of
\* its arguments, every other step leaves it alone
pushCountStep ==
    pushCount(qs'["src"]) =
        IF last'.op = "push" /\ last'.err = NoErr
        THEN pushCount(qs["src"]) + (Len(pushed') - Len(pushed))
        ELSE pushCount(qs["src"])

\* C37: pushCount() never decreases: a successful push adds the number of
\* its arguments; removals, end and failed pushes leave it unchanged, so it
\* is always the number of items accepted so far.
C37_PushCountMonotone ==
    /\ [](pushCount(qs["src"]) = Len(pushed))
    /\ [][pushCountStep /\ pushCount(qs'["src"]) >= pushCount(qs["src"])]_vars

C37_Witness ==
    /\ pushCount(qs["src"]) = MaxPush
    /\ qs["src"].prom = 3
    /\ size(qs["src"]) = 0
    /\ qs["src"].ended
    /\ last.op = "push"
    /\ last.err = ErrEnded

\* ------------------------------------------- properties of the sentinel
\* C32: the sentinel is never handed to an external consumer: no visitor is
\* called with it and no shiftUnsafe call returns it to its caller.
C32_SentinelNeverReturned ==
    /\ \A k \in DOMAIN visited : visited[k] # qs["src"].eof
    /\ \A i \in DOMAIN calls :
          calls[i].pc = "holding" => calls[i].r # qs["src"].eof

\* ------------------------------------------ when batch emits its groups
\* every group batch has pushed onto its derived queue, in push order
allGroups == batches \o held(dr["bat"], qs["bat"]) \o items(qs["bat"])

\* C35: while the drain batch runs on the source has not finished, the
\* derived queue has received one full group per n source items consumed
\* and the buffer holds the remainder, whether or not the source was ended;
\* a group of fewer than n items is pushed only by the completion of the
\* source drain, after the source was ended, and it is the last group.
C35_BatchEmitsWhenFull ==
    /\ Len(allGroups) = pushCount(qs["bat"])
    /\ dr["src"].pc # "closed" =>
          /\ pushCount(qs["bat"]) = Len(srcVisited) \div bn
          /\ Len(buffer) = Len(srcVisited) % bn
          /\ ~qs["bat"].ended
    /\ \A k \in DOMAIN allGroups :
          Len(allGroups[k]) # bn =>
              /\ dr["src"].pc = "closed"
              /\ qs["src"].ended
              /\ k = Len(allGroups)
              /\ Len(allGroups[k]) \in 1..(bn - 1)

C35_Witness ==
    /\ ~qs["src"].ended
    /\ bn = 2
    /\ Len(srcVisited) = 3
    /\ items(qs["bat"]) = <<SubSeq(pushed, 1, 2)>>
    /\ Len(buffer) = 1

\* ------------------------------------- properties of clone with count < 1
\* clone throws and changes nothing
cloneRejected ==
    last'.op = "clone" =>
        /\ last'.err = ErrCount
        /\ qs' = qs
        /\ dr' = dr
        /\ clones' = clones

\* a drain started on the queue that is not piped is accepted
drainAccepted ==
    (~qs["src"].piped /\ last'.op = "map") =>
        (last'.err = NoErr /\ qs'["src"].piped)

\* C36: clone(count) with count < 1 throws 'Count must be at least 1' and
\* changes nothing: no clone is created, the source stays un-piped with
\* its buffer as it was; a drain started afterwards is accepted, visits
\* the accepted items in order, and completes having visited them all.
C36_CloneCountRejected ==
    /\ [](clones = <<>>)
    /\ [](~qs["src"].piped => items(qs["src"]) = pushed)
    /\ [](IsPrefix(visited, pushed))
    /\ [](dr["src"].pc = "done" => visited = pushed)
    /\ [][cloneRejected /\ drainAccepted]_vars

C36_Witness ==
    /\ last.op = "clone"
    /\ last.err = ErrCount
    /\ ~qs["src"].piped
    /\ dr["src"].pc = "idle"
    /\ qs["src"].ended
    /\ Len(items(qs["src"])) = MaxSrc

\* --------------------------------------- properties of mapParallel with n = 0
\* C38: with n = 0 mapParallel waits at once for the first of no tasks: it
\* launches no visitor, removes nothing from the source and never
\* completes, whether or not the source is ended, and the derived queues
\* of upipe / usplit receive nothing and are never ended.
C38_ZeroWindowBlocks ==
    cfg.n = 0 =>
        /\ tasks = <<>>
        /\ proms = <<>>
        /\ winner = 0
        /\ dr["src"].pc \in {"idle", "racing"}
        /\ qs["src"].queue =
              pushed \o (IF qs["src"].ended THEN <<EOF>> ELSE <<>>)
        /\ \A t \in derivedOf(cfg.mode) :
              ~qs[t].ended /\ pushCount(qs[t]) = 0

C38_Witness ==
    /\ cfg.n = 0
    /\ dr["src"].pc = "racing"
    /\ dr["src"].kind = "mapParallel"
    /\ qs["src"].piped
    /\ qs["src"].ended
    /\ Len(pushed) = MaxSrc

\* ------------------------------------ the order mapParallel launches in
\* C39: under mapParallel the k-th visitor invocation is called with the
\* k-th item removed from the source, whatever the order the invocations
\* settle in: the items passed to them are exactly the source items removed and
\* passed on, in source order, and once the loop has left the source every
\* accepted item was passed to one invocation.
C39_LaunchOrder ==
    dr["src"].kind = "mapParallel" =>
        /\ processed = srcVisited
        /\ dr["src"].pc \in {"joining", "done", "closed"} =>
              (qs["src"].ended /\ processed = pushed)

C39_Witness ==
    /\ dr["src"].kind = "mapParallel"
    /\ dr["src"].pc = "joining"
    /\ cfg.n = MaxN
    /\ processed = pushed
    /\ Len(tasks) = MaxSrc
    /\ tasks[1].st = "running"
    /\ tasks[MaxSrc].st = "fulfilled"
    /\ processed[1] # processed[2]

\* ------------------------------------------- the order of a merged queue
\* the items of sq that the producer of this pushed
fromThis(sq) == SelectSeq(sq, LAMBDA x : x <= MaxItem)

\* the items of sq that the producer of q pushed
fromOth(sq) == SelectSeq(sq, LAMBDA x : x > MaxItem)

\* C40: in the queue derived by this.umerge(q) the items that came from
\* this are in the order this accepted them and the items that came from q
\* in the order q accepted them, whatever the interleaving of the two
\* drains; once the merged queue is ended both sequences are complete.
C40_MergePreservesOrder ==
    /\ IsPrefix(fromThis(items(qs["out"])), pushed)
    /\ IsPrefix(fromOth(items(qs["out"])), pushedB)
    /\ Len(items(qs["out"]))
          = Len(fromThis(items(qs["out"]))) + Len(fromOth(items(qs["out"])))
    /\ qs["out"].ended =>
          /\ fromThis(items(qs["out"])) = pushed
          /\ fromOth(items(qs["out"])) = pushedB

C40_Witness ==
    /\ qs["out"].ended
    /\ Len(pushed) = MaxMerge
    /\ Len(pushedB) = MaxMerge
    /\ items(qs["out"])[1] = pushedB[1]
    /\ items(qs["out"])[2] = pushed[1]
    /\ items(qs["out"])[3] = pushedB[2]
    /\ pushed[1] # pushed[2]

\* ---------------------------------- properties of a chain of combinators
\* the derived queues of the chain in use
derivedOfChain ==
    UNION {{chain[k].to[j] : j \in DOMAIN chain[k].to} : k \in DOMAIN chain}

\* an ended queue stays ended, and its count of accepted items stays
endedForGood ==
    \A t \in derivedOfChain :
        qs[t].ended =>
            /\ qs'[t].ended
            /\ pushCount(qs'[t]) = pushCount(qs[t])
            /\ qs'[t].resolveEndCalls = qs[t].resolveEndCalls

\* C31: in a chain of ordered combinators whose callbacks do not fail, over
\* a source that is eventually ended, every derived queue is eventually
\* ended, is ended once, and receives nothing after its end: no map of the
\* chain fails and no push or end inside a combinator throws.
C31_ChainEnds ==
    /\ <>(\A t \in derivedOfChain : qs[t].ended)
    /\ [](/\ unhandled = <<>>
          /\ \A i \in QueueIds : dr[i].pc # "failed"
          /\ \A t \in derivedOfChain :
                /\ qs[t].resolveEndCalls = (IF qs[t].ended THEN 1 ELSE 0)
                /\ Cardinality(sentinels(qs[t])) <= 1)
    /\ [][endedForGood]_vars

C31_Witness ==
    /\ cfg.mode = "cloneSplitBatchFlat"
    /\ bn = 2
    /\ \A t \in derivedOfChain : qs[t].ended
    /\ Len(pushed) = MaxChain
    /\ pushCount(qs["out"]) > 0
    /\ pushCount(qs["oth"]) > 0
    /\ pushCount(qs["flt"]) = MaxChain

====
